---- MODULE Spec2Model ----
(***************************************************************************)
(* Scroll Balance Pro (src/app.js): the Reddit rate limiter, the feed      *)
(* cache, the wellness score and the rating pipeline, as state machines.  *)
(* Time is Date.now() in milliseconds, counted from the app's construction.*)
(***************************************************************************)
EXTENDS Integers, Sequences, FiniteSets, TLC

VARIABLES
    now,                \* Date.now()
    requests,           \* redditLimiter.requests: timestamps, in push order
    pc,                 \* per caller: where its async function is suspended
    wakeAt,             \* per caller: when its pending setTimeout is due
    frame,              \* per caller: the locals of fetchRealContent/fetchRedditPosts
    cycle,              \* per caller: history of its current fetch cycle
    redditCache,        \* [data, expiresAt]: two Maps, each in insertion order
    cacheHistory,       \* history of the cache: insertions, last eviction
    currentFeedFilter,
    currentFeedContent,
    userData,
    historicalData,     \* this.historicalData: one entry per day, in key order
    localStorage,       \* the browser's localStorage, by key
    sessionAlignedCount,
    lastCoachingMessage,
    ratingEvent,        \* history of the last rating event: its stages and toasts
    challengeReads,     \* history: the reads of the daily challenge's progress
    nudgeLog,           \* history: the nudges shown, in order
    saveLog,            \* history: the steps of each saveData call so far, as a set
    navigation,         \* isNavigating, the active nav item and page, the load awaited
    worker,             \* the extension's background service worker and the tabs
    budget              \* actions left, by kind (bounds the model)

engineVars == <<historicalData, localStorage, sessionAlignedCount,
                lastCoachingMessage, ratingEvent, challengeReads, nudgeLog, saveLog,
                navigation, worker>>

vars == <<now, requests, pc, wakeAt, frame, cycle, redditCache, cacheHistory,
          currentFeedFilter, currentFeedContent, userData, engineVars, budget>>

feedVars == <<frame, cycle, redditCache, cacheHistory, currentFeedFilter,
              currentFeedContent>>

appVars == <<feedVars, userData, engineVars, budget>>

(* ---------------- program constants ---------------- *)
\* new RateLimiter(30, 60000)
maxRequests == 30
timeWindow == 60000

(* ---------------- bounds of the model ---------------- *)
\* the limiter alone: the clock advances in steps of TickMs up to MaxTime
TickMs == 20000
MaxTime == 120000
Callers == {"c1", "c2"}

(* ---------------- RateLimiter ---------------- *)
\* this.requests.filter(time => now - time < this.timeWindow)
FilterRequests(reqs, t) == SelectSeq(reqs, LAMBDA time : t - time < timeWindow)

WaitTimeNone(reqs, t) == 0

\* this.timeWindow - (now - oldestRequest), oldestRequest = this.requests[0]
WaitTime(reqs, t) == timeWindow - (t - reqs[1])

\* if (this.requests.length >= this.maxRequests)
MustWait(reqs) == Len(reqs) >= maxRequests

\* throttle(), from its call to its first suspension or to its return;
\* after: where the caller stands once throttle() has returned
ThrottleEnter(c, after) ==
    LET kept == FilterRequests(requests, now) IN
    IF MustWait(kept)
    THEN /\ requests' = kept
         /\ pc' = [pc EXCEPT ![c] = "throttle"]
         /\ wakeAt' = [wakeAt EXCEPT ![c] = now + WaitTime(kept, now)]
    ELSE /\ requests' = Append(kept, now)
         /\ pc' = [pc EXCEPT ![c] = after]
         /\ UNCHANGED wakeAt

\* a setTimeout callback runs no earlier than its delay
TimerDue(c) == now >= wakeAt[c]

\* the clock
Advance(d, limit) ==
    /\ now + d <= limit
    /\ now' = now + d

(* ---------------- the limiter alone: callers of throttle() ------------- *)
ThrottleCall(c) ==
    /\ pc[c] = "idle"
    /\ ThrottleEnter(c, "idle")
    /\ UNCHANGED <<now, appVars>>

\* throttle() after its await: this.requests.push(Date.now())
ThrottleResume(c) ==
    /\ pc[c] = "throttle"
    /\ TimerDue(c)
    /\ requests' = Append(requests, now)
    /\ pc' = [pc EXCEPT ![c] = "idle"]
    /\ UNCHANGED <<now, wakeAt, appVars>>

Tick ==
    /\ Advance(TickMs, MaxTime)
    /\ UNCHANGED <<requests, pc, wakeAt, appVars>>

(* ---------------- the feed cache (redditCache) ---------------- *)
\* Cache for 5 minutes: now + 5 * 60 * 1000
CacheTtlMs == 300000
\* Limit cache size to 10 entries
maxCacheEntries == 10
\* response.headers.get('Retry-After') || 60
defaultRetryAfter == 60

\* a JavaScript Map: entries [k, v] in insertion order
MapHas(m, k) == \E i \in 1..Len(m) : m[i].k = k
MapGet(m, k) == m[CHOOSE i \in 1..Len(m) : m[i].k = k].v
\* set() of a key the Map holds replaces the value where the key stands
MapSet(m, k, v) ==
    IF MapHas(m, k)
    THEN [i \in 1..Len(m) |-> IF m[i].k = k THEN [k |-> k, v |-> v] ELSE m[i]]
    ELSE Append(m, [k |-> k, v |-> v])
MapDelete(m, k) == SelectSeq(m, LAMBDA e : e.k # k)
MapKeys(m) == {m[i].k : i \in 1..Len(m)}

\* `${this.currentFeedFilter}_${this.userData.goals.join(',')}`
CacheKey(filter, gs) == <<filter, gs>>

CacheFreshNever(cache, key, t) == FALSE

\* this.redditCache.data.has(cacheKey) and now < expiresAt.get(cacheKey)
CacheFresh(cache, key, t) ==
    /\ MapHas(cache.data, key)
    /\ MapHas(cache.expiresAt, key)
    /\ t < MapGet(cache.expiresAt, key)

CacheOverfullNever(d) == FALSE

\* if (this.redditCache.data.size > 10)
CacheOverfull(d) == Len(d) > maxCacheEntries

OldestKeyLast(d) == d[Len(d)].k

\* this.redditCache.data.keys().next().value
OldestKey(d) == d[1].k

\* the two set() calls and the size limit of fetchRealContent;
\* t is the function's local now
StoreResult(cache, key, value, t) ==
    LET d == MapSet(cache.data, key, value)
        e == MapSet(cache.expiresAt, key, t + CacheTtlMs)
    IN  IF CacheOverfull(d)
        THEN [data |-> MapDelete(d, OldestKey(d)),
              expiresAt |-> MapDelete(e, OldestKey(d))]
        ELSE [data |-> d, expiresAt |-> e]

EmptyCache == [data |-> <<>>, expiresAt |-> <<>>]

(* ---------------- subreddits ---------------- *)
subredditMap ==
    ("learn" :> <<"todayilearned", "explainlikeimfive", "science", "AskScience">>) @@
    ("chill" :> <<"natureporn", "cozyplaces", "mademesmile", "wholesomememes">>) @@
    ("reduce-anxiety" :> <<"meditation", "mindfulness", "decidingtobebetter">>) @@
    ("productivity" :> <<"productivity", "getdisciplined", "lifeprotips">>) @@
    ("sleep" :> <<"sleep", "bedtime">>)

\* Object.values(subredditMap) runs in this order
GoalOrder == <<"learn", "chill", "reduce-anxiety", "productivity", "sleep">>

RECURSIVE FlatSubs(_)
FlatSubs(gs) ==
    IF gs = <<>> THEN <<>>
    ELSE (IF Head(gs) \in DOMAIN subredditMap THEN subredditMap[Head(gs)] ELSE <<>>)
         \o FlatSubs(Tail(gs))

\* s.slice(0, n)
Slice(s, n) == SubSeq(s, 1, IF Len(s) < n THEN Len(s) ELSE n)
\* s.slice(-n)
SliceLast(s, n) == SubSeq(s, IF Len(s) > n THEN Len(s) - n + 1 ELSE 1, Len(s))

getSubredditsForGoals(filter, gs) ==
    Slice(IF filter = "goal-aligned" /\ Len(gs) > 0 THEN FlatSubs(gs)
          ELSE IF filter = "educational"
               THEN subredditMap["learn"] \o subredditMap["productivity"]
               ELSE FlatSubs(GoalOrder),
          5)

\* categorizeRedditPost, by the substrings of the lower-cased subreddit name
categorizeRedditPost(subreddit) ==
    IF subreddit \in {"todayilearned", "explainlikeimfive", "science", "AskScience"}
    THEN "learn"
    ELSE IF subreddit \in {"meditation", "mindfulness"} THEN "reduce-anxiety"
    ELSE IF subreddit \in {"productivity", "getdisciplined"} THEN "productivity"
    ELSE IF subreddit = "sleep" THEN "sleep"
    ELSE "chill"

SeqContains(s, x) == \E i \in 1..Len(s) : s[i] = x

\* the posts.push of one listing: id, goal and isAligned as computed on arrival
PostOf(subreddit, gs) ==
    [subreddit |-> subreddit,
     goal |-> categorizeRedditPost(subreddit),
     aligned |-> SeqContains(gs, categorizeRedditPost(subreddit))]

(* ---------------- fetchRealContent / fetchRedditPosts ---------------- *)
EmptyFrame == [cacheKey |-> <<>>, now |-> 0, subreddits |-> <<>>, i |-> 0, posts |-> <<>>]
\* log: the outcome of each request of the cycle; issuedAt: when its last request
\* went out; last429: <<time, Retry-After header>> of its last 429, if any;
\* returned: what fetchRedditPosts returned; done: the cycle has returned
EmptyCycle == [subreddits |-> <<>>, log |-> <<>>, issuedAt |-> 0, last429 |-> <<>>,
               returned |-> <<>>, done |-> FALSE]
\* n: insertions so far; order: <<key, number of its insertion>> of the keys held;
\* evicted: the keys the last store removed; hits: calls served from the cache
EmptyHistory == [n |-> 0, order |-> {}, evicted |-> {}, hits |-> 0]

\* the history of a store that turns the cache from before into after
HistoryAfterStore(h, before, after, key) ==
    LET fresh == ~MapHas(before.data, key)
        order1 == IF fresh THEN h.order \cup {<<key, h.n + 1>>} ELSE h.order
    IN  [n |-> IF fresh THEN h.n + 1 ELSE h.n,
         order |-> {p \in order1 : p[1] \in MapKeys(after.data)},
         evicted |-> (MapKeys(before.data) \cup {key}) \ MapKeys(after.data),
         hits |-> h.hits]

\* fetchRedditPosts has returned p: fetchRealContent lines 1318-1335
Return(c, p, lg) ==
    /\ pc' = [pc EXCEPT ![c] = "idle"]
    /\ frame' = [frame EXCEPT ![c] = EmptyFrame]
    /\ cycle' = [cycle EXCEPT ![c].log = lg, ![c].returned = p, ![c].done = TRUE]
    /\ UNCHANGED <<requests, wakeAt>>
    /\ IF Len(p) = 0
       THEN UNCHANGED <<redditCache, cacheHistory, currentFeedContent>>
       ELSE LET after == StoreResult(redditCache, frame[c].cacheKey, p, frame[c].now)
            IN  /\ redditCache' = after
                /\ cacheHistory' = HistoryAfterStore(cacheHistory, redditCache, after,
                                                     frame[c].cacheKey)
                /\ currentFeedContent' = p

\* the for loop of fetchRedditPosts goes on to its next subreddit (throttle(),
\* then fetch()), or ends; p: posts so far
Continue(c, p, lg) ==
    IF frame[c].i < Len(frame[c].subreddits)
    THEN /\ ThrottleEnter(c, "fetch")
         /\ frame' = [frame EXCEPT ![c].i = @ + 1, ![c].posts = p]
         /\ cycle' = [cycle EXCEPT ![c].log = lg,
                         ![c].issuedAt = IF MustWait(FilterRequests(requests, now))
                                         THEN @ ELSE now]
         /\ UNCHANGED <<redditCache, cacheHistory, currentFeedContent>>
    ELSE Return(c, p, lg)

CatchEndsCycle(c, lg) == Return(c, frame[c].posts, lg)

\* catch (error) inside the loop: log it, next subreddit
CatchInLoop(c, lg) == Continue(c, frame[c].posts, lg)

RetryDelayNone(header) == 0

\* (response.headers.get('Retry-After') || 60) * 1000; header: <<>> when absent,
\* <<seconds>> otherwise
RetryDelayMs(header) ==
    (IF header = <<>> THEN defaultRetryAfter ELSE header[1]) * 1000

\* fetchRealContent up to its first suspension, with filter f current
FetchRealContent(c, f) ==
    LET key == CacheKey(f, userData.goals)
        subs == Slice(getSubredditsForGoals(f, userData.goals), 3)
    IN  IF CacheFresh(redditCache, key, now)
        THEN /\ currentFeedContent' = MapGet(redditCache.data, key)
             /\ cacheHistory' = [cacheHistory EXCEPT !.hits = @ + 1]
             /\ UNCHANGED <<requests, pc, wakeAt, frame, cycle, redditCache>>
        ELSE IF subs = <<>>
        THEN UNCHANGED <<requests, pc, wakeAt, frame, cycle, redditCache,
                         cacheHistory, currentFeedContent>>
        ELSE /\ ThrottleEnter(c, "fetch")
             /\ frame' = [frame EXCEPT ![c] =
                    [cacheKey |-> key, now |-> now, subreddits |-> subs, i |-> 1,
                     posts |-> <<>>]]
             /\ cycle' = [cycle EXCEPT ![c] =
                    [EmptyCycle EXCEPT !.subreddits = subs, !.issuedAt =
                        IF MustWait(FilterRequests(requests, now)) THEN 0 ELSE now]]
             /\ UNCHANGED <<redditCache, cacheHistory, currentFeedContent>>

\* a filter button's click handler (setupFeedFilters); loadSmartFeed is the
\* case f = "all"
SelectFilter(c, f) ==
    /\ pc[c] = "idle"
    /\ budget.clicks > 0
    /\ budget' = [budget EXCEPT !.clicks = @ - 1]
    /\ currentFeedFilter' = f
    /\ FetchRealContent(c, f)
    /\ UNCHANGED <<now, userData, engineVars>>

\* throttle() resumes in fetchRedditPosts: push, then fetch()
ThrottleWake(c) ==
    /\ pc[c] = "throttle"
    /\ frame[c].i > 0
    /\ TimerDue(c)
    /\ requests' = Append(requests, now)
    /\ pc' = [pc EXCEPT ![c] = "fetch"]
    /\ cycle' = [cycle EXCEPT ![c].issuedAt = now]
    /\ UNCHANGED <<now, wakeAt, frame, redditCache, cacheHistory, currentFeedFilter,
                   currentFeedContent, userData, engineVars, budget>>

\* the response of the pending fetch(): a listing with a usable post ("ok"),
\* one without ("empty"), a network error or a non-OK status ("error")
Response(c, outcome) ==
    /\ pc[c] = "fetch"
    /\ LET lg == Append(cycle[c].log, outcome)
           sub == frame[c].subreddits[frame[c].i]
       IN  IF outcome = "ok"
           THEN Continue(c, Append(frame[c].posts, PostOf(sub, userData.goals)), lg)
           ELSE IF outcome = "empty"
           THEN Continue(c, frame[c].posts, lg)
           ELSE CatchInLoop(c, lg)
    /\ UNCHANGED <<now, currentFeedFilter, userData, engineVars, budget>>

\* response.status === 429: wait, then skip this subreddit
RateLimited(c, header) ==
    /\ pc[c] = "fetch"
    /\ pc' = [pc EXCEPT ![c] = "retry"]
    /\ wakeAt' = [wakeAt EXCEPT ![c] = now + RetryDelayMs(header)]
    /\ cycle' = [cycle EXCEPT ![c].log = Append(@, "429"),
                              ![c].last429 = <<now, header>>]
    /\ UNCHANGED <<now, requests, frame, redditCache, cacheHistory, currentFeedFilter,
                   currentFeedContent, userData, engineVars, budget>>

\* the retry delay is over: continue
RetryWake(c) ==
    /\ pc[c] = "retry"
    /\ TimerDue(c)
    /\ Continue(c, frame[c].posts, cycle[c].log)
    /\ UNCHANGED <<now, currentFeedFilter, userData, engineVars, budget>>

(* ---------------- persistence and the activity log ---------------- *)
\* The methods of ScrollBalancePro that run to completion are functions of
\* the world w: the fields they read and write, and whether an exception is
\* propagating (thrown).  A method that calls others in turn is written
\* CHOOSE w2 \in {g(w1) : w1 \in {f(w)}} : TRUE, which is g(f(w)) with f(w)
\* evaluated once.  The owl companion's fields (owlInteractions,
\* lastOwlAppearance, owlDismissals), hourlyEngagement, contentSignatures and
\* the charts are written but never read by the methods modelled here, and
\* are left out.
World ==
    [ud |-> userData, hist |-> historicalData, ls |-> localStorage,
     sac |-> sessionAlignedCount, lcm |-> lastCoachingMessage,
     ev |-> ratingEvent, reads |-> challengeReads, nudges |-> nudgeLog,
     saves |-> saveLog, nav |-> navigation, sw |-> worker,
     thrown |-> FALSE]

\* the world is the state
IsWorld(w) ==
    /\ userData = w.ud
    /\ historicalData = w.hist
    /\ localStorage = w.ls
    /\ sessionAlignedCount = w.sac
    /\ lastCoachingMessage = w.lcm
    /\ ratingEvent = w.ev
    /\ challengeReads = w.reads
    /\ nudgeLog = w.nudges
    /\ saveLog = w.saves
    /\ navigation = w.nav
    /\ worker = w.sw

\* the world becomes the next state
Commit(w) ==
    /\ userData' = w.ud
    /\ historicalData' = w.hist
    /\ localStorage' = w.ls
    /\ sessionAlignedCount' = w.sac
    /\ lastCoachingMessage' = w.lcm
    /\ ratingEvent' = w.ev
    /\ challengeReads' = w.reads
    /\ nudgeLog' = w.nudges
    /\ saveLog' = w.saves
    /\ navigation' = w.nav
    /\ worker' = w.sw

\* new Date().toDateString(): the calendar day of t
DayMs == 86400000
Day(t) == t \div DayMs

\* The size of JSON.stringify(value) in bytes: a fixed number of bytes for
\* each entry of the arrays, and for userData the bytes of the fields that
\* are not modelled (rest).
RatingBytes == 120
ActivityBytes == 80
MoodBytes == 60
ScoreBytes == 4
DayBytes == 80
StatsBytes == 100
BytesOfDailyStats(ds) == StatsBytes + ScoreBytes * Len(ds.wellnessScores)
BytesOfUserData(ud) ==
    ud.rest + RatingBytes * (Len(ud.contentRatings) + Len(ud.sessionRatings))
            + ActivityBytes * Len(ud.activityHistory)
            + MoodBytes * Len(ud.moodHistory)
            + BytesOfDailyStats(ud.dailyStats)
BytesOfHistory(hist) == DayBytes * Len(hist)

\* localStorage: the values under the three keys, the bytes each occupies
\* and the origin's quota.  setItem throws QuotaExceededError when the new
\* value does not fit beside the other keys, and then stores nothing.
StorageKeys == {"scrollBalancePro", "dailyStats", "historicalData"}
OtherBytes(ls, key) ==
    ls.used["scrollBalancePro"] + ls.used["dailyStats"] + ls.used["historicalData"]
      - ls.used[key]
Fits(ls, key, bytes) == OtherBytes(ls, key) + bytes <= ls.capacity
setItem(ls, key, value, bytes) == [ls EXCEPT ![key] = value, !.used[key] = bytes]
EmptyStorage(capacity) ==
    [scrollBalancePro |-> <<>>, dailyStats |-> <<>>, historicalData |-> <<>>,
     used |-> [k \in StorageKeys |-> 0], capacity |-> capacity]

\* compressUserData: the last 100 ratings, the last 50 activities and the
\* moods of the last 30 days are kept (the 30 days in seconds, their
\* milliseconds exceeding the integers of the model)
ThirtyDaysSec == 2592000
compressUserData(ud) ==
    [ud EXCEPT !.contentRatings = IF Len(@) > 100 THEN SliceLast(@, 100) ELSE @,
               !.activityHistory = IF Len(@) > 50 THEN SliceLast(@, 50) ELSE @,
               !.moodHistory =
                   SelectSeq(@, LAMBDA m : m.time \div 1000 > now \div 1000 - ThirtyDaysSec)]

\* error.name === 'QuotaExceededError'
IsQuotaErrorNever(name) == FALSE
IsQuotaError(name) == name = "QuotaExceededError"

\* the catch block of saveData for an error of this name, log being the
\* steps of the call so far: a quota error compacts and writes the compacted
\* data once more, alerting when that write fails too; any other error is
\* only logged
CatchSaveError(w, name, log) ==
    IF ~IsQuotaError(name) THEN [w EXCEPT !.saves = @ \cup {Append(log, "logged")}]
    ELSE LET ud1 == compressUserData(w.ud)
             size1 == BytesOfUserData(ud1)
         IN  IF Fits(w.ls, "scrollBalancePro", size1)
             THEN [w EXCEPT !.ud = ud1,
                            !.ls = setItem(@, "scrollBalancePro", ud1, size1),
                            !.saves = @ \cup {log \o <<"compress", "write">>}]
             ELSE [w EXCEPT !.ud = ud1,
                            !.saves = @ \cup {log \o <<"compress", "quota", "alert">>}]

\* saveData: data is stringified first, so that the compaction above the
\* 4.5 MB threshold does not change what the first setItem writes; a value
\* read back empty fails the verification with a plain Error
SizeThreshold == 4718592
saveData(w) ==
    LET data == w.ud
        size == BytesOfUserData(data)
        big == size > SizeThreshold
        log == IF big THEN <<"compress">> ELSE <<>>
        w1 == [w EXCEPT !.ud = IF big THEN compressUserData(@) ELSE @]
    IN  IF Fits(w.ls, "scrollBalancePro", size)
        THEN [w1 EXCEPT !.ls = setItem(@, "scrollBalancePro", data, size),
                        !.saves = @ \cup {Append(log, "write")}]
        ELSE CatchSaveError(w1, "QuotaExceededError", Append(log, "quota"))

\* saveDailyStats: the setItem is not inside a try, its error propagates
saveDailyStats(w) ==
    LET size == BytesOfDailyStats(w.ud.dailyStats)
    IN  IF Fits(w.ls, "dailyStats", size)
        THEN [w EXCEPT !.ls = setItem(@, "dailyStats", w.ud.dailyStats, size)]
        ELSE [w EXCEPT !.thrown = TRUE]

\* this.userData.activityHistory.push, at most 50 kept
addActivity(ud, type, title) ==
    [ud EXCEPT !.activityHistory =
        SliceLast(Append(@, [type |-> type, title |-> title, time |-> now]), 50)]

\* addActivity as a whole: the push, then saveData
AddActivity(w, type, title) ==
    CHOOSE w2 \in {saveData(w1) :
                     w1 \in {[w EXCEPT !.ud = addActivity(w.ud, type, title)]}} : TRUE

\* showToast
Toast(w, title) == [w EXCEPT !.ev.toasts = Append(@, title)]

\* showToast for a nudge: a live-coaching message or the slow-down warning
Nudge(w, title, message) ==
    [Toast(w, title) EXCEPT
       !.nudges = Append(@, [title |-> title, message |-> message, time |-> now])]

RECURSIVE IndexOf(_, _)
\* the 1-based position of x in s, 0 when absent
IndexOf(s, x) ==
    IF s = <<>> THEN 0
    ELSE IF Head(s) = x THEN 1
    ELSE LET r == IndexOf(Tail(s), x) IN IF r = 0 THEN 0 ELSE r + 1

RemoveAt(s, i) == SubSeq(s, 1, i - 1) \o SubSeq(s, i + 1, Len(s))

\* toggleGoal: add or remove the goal, save, clear the feed cache, log the
\* activity (which saves again)
ToggleGoal(goalId) ==
    /\ budget.toggles > 0
    /\ budget' = [budget EXCEPT !.toggles = @ - 1]
    /\ LET index == IndexOf(userData.goals, goalId)
           gs == IF index = 0 THEN Append(userData.goals, goalId)
                 ELSE RemoveAt(userData.goals, index)
       IN  \E w \in {AddActivity(saveData([World EXCEPT !.ud.goals = gs]), "goal", gs)} :
              Commit(w)
    /\ redditCache' = EmptyCache
    /\ cacheHistory' = [EmptyHistory EXCEPT !.hits = cacheHistory.hits]
    /\ UNCHANGED <<now, requests, pc, wakeAt, frame, cycle, currentFeedFilter,
                   currentFeedContent>>

(* ---------------- the daily challenge ---------------- *)
\* dailyChallenge: null
NoChallenge ==
    [id |-> "none", target |-> 0, progress |-> 0, type |-> "none", xpReward |-> 0,
     date |-> -1]

\* the challenges generateDailyChallenge picks from, by index
challenges ==
    << [id |-> "rate_10", target |-> 10, progress |-> 0, type |-> "ratings",
        xpReward |-> 100],
       [id |-> "valuable_7", target |-> 7, progress |-> 0, type |-> "valuable",
        xpReward |-> 150],
       [id |-> "alignment_80", target |-> 80, progress |-> 0, type |-> "alignment",
        xpReward |-> 120],
       [id |-> "mindful_session", target |-> 5, progress |-> 0,
        type |-> "perfect_session", xpReward |-> 200] >>

\* we already have today's challenge
HasChallengeNever(w) == FALSE
HasChallenge(w) ==
    w.ud.dailyChallenge # NoChallenge /\ w.ud.dailyChallenge.date = Day(now)

\* what Math.random() can select when a call may generate a challenge
Picks(w) == IF HasChallenge(w) THEN {1} ELSE 1..Len(challenges)

\* generateDailyChallenge; pick: the index Math.random() selects
generateDailyChallenge(w, pick) ==
    LET today == Day(now) IN
    IF HasChallenge(w)
    THEN w
    ELSE saveData([w EXCEPT
            !.ud.dailyChallenge =
                [id |-> challenges[pick].id, target |-> challenges[pick].target,
                 progress |-> 0, type |-> challenges[pick].type,
                 xpReward |-> challenges[pick].xpReward, date |-> today],
            !.ud.challengeProgress = 0])

\* the progress of the challenge is read by a method, on the day Day(now)
ReadProgress(w, by) ==
    [w EXCEPT !.reads = @ \cup {[by |-> by, date |-> w.ud.dailyChallenge.date,
                                 today |-> Day(now)]}]

\* Math.round(num / den) for num, den >= 0: the nearest integer, halves up
Round(num, den) == (2 * num + den) \div (2 * den)

\* the progress of a challenge of this type over today's ratings
ChallengeProgress(type, todayRatings) ==
    LET valuable == Len(SelectSeq(todayRatings, LAMBDA r : r.rating = "valuable"))
        aligned == Len(SelectSeq(todayRatings, LAMBDA r : r.aligned))
    IN  CASE type = "ratings" -> Len(todayRatings)
          [] type = "valuable" -> valuable
          [] type = "alignment" ->
                IF Len(todayRatings) > 0
                THEN Round(aligned * 100, Len(todayRatings)) ELSE 0
          [] type = "perfect_session" -> valuable
          [] OTHER -> 0

(* ---------------- achievements ---------------- *)
\* an entry of userData.achievements: an achievement's id, or the marker
\* `daily_complete_${date}` of a completed challenge
Unlocked(id) == [id |-> id, date |-> -1]
DailyComplete(date) == [id |-> "daily_complete", date |-> date]

\* getAchievementDefinitions, in its order
AchievementIds ==
    <<"first_rating", "quality_curator_10", "quality_curator_50", "streak_7",
      "streak_30", "quality_streak_5", "quality_streak_10", "level_5", "level_10",
      "wellness_80", "wellness_90", "daily_challenge_1", "alignment_master">>

xpReward(id) ==
    CASE id = "first_rating" -> 50
      [] id = "quality_curator_10" -> 100
      [] id = "quality_curator_50" -> 250
      [] id = "streak_7" -> 200
      [] id = "streak_30" -> 500
      [] id = "quality_streak_5" -> 150
      [] id = "quality_streak_10" -> 300
      [] id = "level_5" -> 100
      [] id = "level_10" -> 300
      [] id = "wellness_80" -> 150
      [] id = "wellness_90" -> 350
      [] id = "daily_challenge_1" -> 100
      [] id = "alignment_master" -> 400

\* achievement.condition()
condition(id, ud) ==
    CASE id = "first_rating" -> ud.totalContentRated >= 1
      [] id = "quality_curator_10" -> ud.totalValuableContent >= 10
      [] id = "quality_curator_50" -> ud.totalValuableContent >= 50
      [] id = "streak_7" -> ud.streak >= 7
      [] id = "streak_30" -> ud.streak >= 30
      [] id = "quality_streak_5" -> ud.qualityStreakBest >= 5
      [] id = "quality_streak_10" -> ud.qualityStreakBest >= 10
      [] id = "level_5" -> ud.level >= 5
      [] id = "level_10" -> ud.level >= 10
      [] id = "wellness_80" -> ud.wellnessScore >= 80
      [] id = "wellness_90" -> ud.wellnessScore >= 90
      [] id = "daily_challenge_1" ->
            Len(SelectSeq(ud.achievements, LAMBDA a : a.id = "daily_complete")) >= 1
      [] id = "alignment_master" ->
            LET recent == SliceLast(ud.contentRatings, 20)
                aligned == Len(SelectSeq(recent, LAMBDA r : r.aligned))
            IN  /\ Len(recent) >= 10
                /\ 10 * aligned >= 9 * Len(recent)

\* this.userData.achievements.includes(achievement.id)
AlreadyUnlockedNever(w, id) == FALSE
AlreadyUnlocked(w, id) == SeqContains(w.ud.achievements, Unlocked(id))

RECURSIVE UnlockFrom(_, _)
\* the forEach of checkAchievements from definition i on: every definition not
\* yet unlocked whose condition holds is pushed, rewarded and logged
UnlockFrom(w, i) ==
    IF i > Len(AchievementIds) THEN w
    ELSE LET id == AchievementIds[i] IN
         IF AlreadyUnlocked(w, id) \/ ~condition(id, w.ud)
         THEN UnlockFrom(w, i + 1)
         ELSE CHOOSE w3 \in
                {UnlockFrom(w2, i + 1) :
                   w2 \in {Toast(w1, id) :
                   w1 \in {AddActivity([w EXCEPT
                                          !.ud.achievements = Append(@, Unlocked(id)),
                                          !.ud.xp = @ + xpReward(id)],
                                        "achievement", id)}}} : TRUE

\* this.checkLevelUp(): ScrollBalancePro has no such method, the call throws
\* a TypeError
checkLevelUp(w) == [w EXCEPT !.thrown = TRUE]

\* checkAchievements
checkAchievements(w) ==
    CHOOSE w3 \in
      {IF Len(w1.ud.achievements) > Len(w.ud.achievements)
       THEN CHOOSE w4 \in {IF w2.thrown THEN w2 ELSE saveData(w2) :
                             w2 \in {checkLevelUp(w1)}} : TRUE
       ELSE w1 :
         w1 \in {UnlockFrom(w, 1)}} : TRUE

\* this.userData.achievements.includes(`daily_complete_${challenge.date}`)
ChallengeDoneNever(w, date) == FALSE
ChallengeDone(w, date) == SeqContains(w.ud.achievements, DailyComplete(date))

\* updateDailyChallengeProgress; pick: the challenge drawn if a new day began
updateDailyChallengeProgress(w, pick) ==
    LET challenge == w.ud.dailyChallenge
        today == Day(now)
        todayRatings == SelectSeq(w.ud.contentRatings,
                                  LAMBDA r : Day(r.timestamp) = today)
        progress == ChallengeProgress(challenge.type, todayRatings)
    IN  IF challenge = NoChallenge THEN w
        ELSE IF challenge.date # today THEN generateDailyChallenge(w, pick)
        ELSE CHOOSE w3 \in
               {IF w2.thrown THEN w2 ELSE saveData(w2) :
                  w2 \in {IF /\ progress >= challenge.target
                             /\ ~ChallengeDone(w1, challenge.date)
                          THEN checkAchievements(
                                 Toast([w1 EXCEPT
                                          !.ud.achievements =
                                              Append(@, DailyComplete(challenge.date)),
                                          !.ud.xp = @ + challenge.xpReward],
                                       "Daily Challenge Complete!"))
                          ELSE w1 :
                  w1 \in {[ReadProgress(w, "update") EXCEPT
                             !.ud.dailyChallenge.progress = progress]}}} : TRUE

(* ---------------- the wellness score ---------------- *)
Max(a, b) == IF a >= b THEN a ELSE b
Min(a, b) == IF a <= b THEN a ELSE b

RECURSIVE Sum(_)
Sum(s) == IF s = <<>> THEN 0 ELSE Head(s) + Sum(Tail(s))

\* getMoodScore
getMoodScore(mood) ==
    CASE mood = "energized" -> 90
      [] mood = "happy" -> 85
      [] mood = "focused" -> 80
      [] mood = "calm" -> 75
      [] mood = "tired" -> 50
      [] mood = "stressed" -> 40
      [] OTHER -> 70

\* 1. goal alignment, in n-ths of a point (n: the ratings looked at, at least 1)
GoalScoreN(recent) ==
    LET n == Max(Len(recent), 1)
        aligned == Len(SelectSeq(recent, LAMBDA r : r.aligned))
    IN  Min(25 * aligned + (IF 5 * aligned > 4 * n THEN 5 * n ELSE 0), 30 * n)

\* 2. time management, in 1800ths of a point; screenTime in seconds
TimeScoreNoFloor(screenTime) ==
    IF screenTime = 0 THEN 15 * 1800 ELSE 7 * 1800 - (screenTime - 6 * 3600)
TimeScore1800(screenTime) ==
    IF screenTime = 0 THEN 15 * 1800
    ELSE IF screenTime < 3600 THEN 18 * 1800
    ELSE IF screenTime <= 2 * 3600 THEN 20 * 1800
    ELSE IF screenTime <= 3 * 3600 THEN 17 * 1800
    ELSE IF screenTime <= 4 * 3600 THEN 12 * 1800
    ELSE IF screenTime <= 6 * 3600 THEN 7 * 1800
    ELSE Max(0, 7 * 1800 - (screenTime - 6 * 3600))

\* 3. mood trajectory
MoodScore(moodHistory) ==
    LET recentMoods == SliceLast(moodHistory, 10)
        moodScores == [i \in 1..Len(recentMoods) |->
                         IF recentMoods[i].score # 0 THEN recentMoods[i].score
                         ELSE getMoodScore(recentMoods[i].mood)]
        last3 == Sum(SliceLast(moodScores, 3))
        older == Sum(Slice(moodScores, Len(moodScores) - 3))
        olderLen == Max(Len(moodScores) - 3, 1)
        \* recentAvg > olderAvg, recentAvg >= 75, recentAvg >= 60
        trend == IF last3 * olderLen > older * 3 THEN 15
                 ELSE IF last3 >= 3 * 75 THEN 13
                 ELSE IF last3 >= 3 * 60 THEN 10
                 ELSE 7
        recentPositive == Len(SelectSeq(SliceLast(recentMoods, 3),
                                LAMBDA m : m.mood \in {"energized", "calm", "focused", "happy"}))
    IN  IF Len(recentMoods) >= 3
        THEN Min(trend + (IF recentPositive = 3 THEN 3 ELSE 0), 18)
        ELSE 10

\* 4. engagement quality, in (2n)-ths of a point
EngagementScoreNoDefault(recent) ==
    30 * Len(SelectSeq(recent, LAMBDA r : r.rating = "valuable"))
EngagementScore2N(recent) ==
    LET n == Max(Len(recent), 1)
        valuable == Len(SelectSeq(recent, LAMBDA r : r.rating = "valuable"))
        skip == Len(SelectSeq(recent, LAMBDA r : r.rating = "skip"))
    IN  IF Len(recent) = 0 THEN 7 * 2 * n
        ELSE IF 10 * skip > 7 * n THEN 21 * valuable
        ELSE 30 * valuable

\* 5. consistency bonus
ConsistencyScore(streak, hist) ==
    (IF streak >= 7 THEN 5 ELSE IF streak >= 3 THEN 3 ELSE IF streak >= 1 THEN 1 ELSE 0)
    + (IF Len(hist) >= 5
          /\ Sum([i \in 1..5 |-> hist[Len(hist) - 5 + i].wellnessScore]) >= 5 * 75
       THEN 5 ELSE 0)

\* 6. content diversity
DiversityScore(recent) ==
    LET goalTypes == {recent[i].goal : i \in 1..Len(recent)}
        size == Cardinality(goalTypes)
    IN  IF Len(recent) >= 10
        THEN Min(2 * size + (IF size >= 3 THEN 2 ELSE 0), 12)
        ELSE 5

\* the ratings of the last hour
LastHourRatings(contentRatings) ==
    SelectSeq(contentRatings, LAMBDA r : now - r.timestamp < 3600000)

\* 7. recency weighting, in m-ths of a point (m: the last hour's ratings, at least 1)
RecencyScoreM(lastHour) ==
    IF Len(lastHour) = 0 THEN 2
    ELSE 5 * Len(SelectSeq(lastHour, LAMBDA r : r.aligned /\ r.rating = "valuable"))

\* the sum of the seven factors as <<numerator, denominator>>, and Math.round
\* of it.  The code adds the factors in floating point; the sum it
\* rounds differs from the exact one by less than any nonzero distance to a
\* half, so only when the exact sum lies on a half can the floating-point
\* result be the integer below (tieDown).
RawSum(ud, hist) ==
    LET recent == SliceLast(ud.contentRatings, 20)
        lastHour == LastHourRatings(ud.contentRatings)
        n == Max(Len(recent), 1)
        m == Max(Len(lastHour), 1)
        den == 1800 * 2 * n * m
        num == GoalScoreN(recent) * (1800 * 2 * m)
               + TimeScore1800(ud.dailyStats.screenTime) * (2 * n * m)
               + EngagementScore2N(recent) * (1800 * m)
               + RecencyScoreM(lastHour) * (1800 * 2 * n)
               + (MoodScore(ud.moodHistory) + ConsistencyScore(ud.streak, hist)
                  + DiversityScore(recent)) * den
    IN  <<num, den>>

\* the exact sum lies on a half
OnHalf(ud, hist) ==
    LET s == RawSum(ud, hist) IN (2 * s[1] + s[2]) % (2 * s[2]) = 0

RawScore(ud, hist, tieDown) ==
    LET s == RawSum(ud, hist)
        q == (2 * s[1] + s[2]) \div (2 * s[2])
    IN  IF OnHalf(ud, hist) /\ tieDown THEN q - 1 ELSE q

\* the roundings the build can produce for the score of w
Roundings(w) == IF OnHalf(w.ud, w.hist) THEN BOOLEAN ELSE {FALSE}

ClampNoFloor(score) == Min(100, score)

\* Math.max(20, Math.min(100, score))
Clamp(score) == Max(20, Min(100, score))

\* the pairs <<previous, score>> in 20..100 for which the double
\* previous * 0.3 + score * 0.7 lies below the half the exact sum lies on
SmoothRoundsDown ==
    {<<48, 23>>, <<29, 24>>, <<39, 24>>, <<49, 24>>, <<23, 28>>, <<24, 29>>,
     <<34, 29>>, <<21, 46>>, <<31, 46>>, <<41, 46>>, <<51, 46>>, <<23, 48>>,
     <<33, 48>>, <<43, 48>>, <<53, 48>>, <<63, 48>>, <<73, 48>>, <<83, 48>>,
     <<93, 48>>, <<26, 51>>, <<36, 51>>, <<46, 51>>, <<28, 53>>, <<38, 53>>,
     <<48, 53>>, <<58, 53>>, <<68, 53>>, <<78, 53>>, <<88, 53>>, <<21, 56>>,
     <<31, 56>>, <<41, 56>>, <<51, 56>>, <<23, 58>>, <<33, 58>>, <<43, 58>>,
     <<53, 58>>, <<63, 58>>, <<73, 58>>, <<26, 61>>, <<36, 61>>, <<46, 61>>,
     <<28, 63>>, <<38, 63>>, <<48, 63>>, <<58, 63>>, <<21, 66>>, <<31, 66>>,
     <<41, 66>>, <<51, 66>>, <<23, 68>>, <<33, 68>>, <<43, 68>>, <<53, 68>>,
     <<26, 71>>, <<36, 71>>, <<46, 71>>, <<28, 73>>, <<38, 73>>, <<21, 76>>,
     <<31, 76>>, <<23, 78>>, <<27, 92>>, <<37, 92>>, <<47, 92>>, <<57, 92>>,
     <<67, 92>>, <<77, 92>>, <<87, 92>>, <<97, 92>>, <<21, 96>>, <<31, 96>>,
     <<41, 96>>, <<51, 96>>, <<61, 96>>, <<71, 96>>, <<81, 96>>, <<91, 96>>,
     <<22, 97>>, <<32, 97>>, <<42, 97>>, <<52, 97>>, <<62, 97>>, <<72, 97>>,
     <<82, 97>>, <<92, 97>>}

SmoothFloor(previousScore, score) == (3 * previousScore + 7 * score) \div 10

\* Math.round(previousScore * 0.3 + score * 0.7)
Smooth(previousScore, score) ==
    IF <<previousScore, score>> \in SmoothRoundsDown
    THEN (3 * previousScore + 7 * score + 5) \div 10 - 1
    ELSE (3 * previousScore + 7 * score + 5) \div 10

\* calculateWellnessScore with the push of every score
calculateWellnessScoreAllPushed(w, tieDown) ==
    LET previousScore == IF w.ud.wellnessScore = 0 THEN 85 ELSE w.ud.wellnessScore
        score == Smooth(previousScore, Clamp(RawScore(w.ud, w.hist, tieDown)))
    IN  [w EXCEPT !.ud.wellnessScore = score,
                  !.ud.dailyStats.wellnessScores = SliceLast(Append(@, score), 100)]

\* calculateWellnessScore
calculateWellnessScore(w, tieDown) ==
    LET previousScore == IF w.ud.wellnessScore = 0 THEN 85 ELSE w.ud.wellnessScore
        score == Smooth(previousScore, Clamp(RawScore(w.ud, w.hist, tieDown)))
        scores == w.ud.dailyStats.wellnessScores
        lastScore == IF scores = <<>> THEN 0 ELSE scores[Len(scores)]
        changed == lastScore = 0 \/ lastScore - score > 1 \/ score - lastScore > 1
    IN  [w EXCEPT !.ud.wellnessScore = score,
                  !.ud.dailyStats.wellnessScores =
                      IF changed THEN SliceLast(Append(@, score), 100) ELSE @]

\* saveHistoricalData: today's entry is written in place, or added last; the
\* history stays below the 90 days beyond which the oldest are dropped.  The
\* setItem is not inside a try, its error propagates.
saveHistoricalData(w) ==
    LET today == Day(now)
        entry == [date |-> today, wellnessScore |-> w.ud.wellnessScore,
                  screenTime |-> w.ud.dailyStats.screenTime, xpEarned |-> w.ud.xp]
        at == {i \in 1..Len(w.hist) : w.hist[i].date = today}
        hist1 == IF at = {} THEN Append(w.hist, entry)
                 ELSE [i \in 1..Len(w.hist) |-> IF i \in at THEN entry ELSE w.hist[i]]
        size == BytesOfHistory(hist1)
    IN  IF Fits(w.ls, "historicalData", size)
        THEN [w EXCEPT !.hist = hist1, !.ls = setItem(@, "historicalData", hist1, size)]
        ELSE [w EXCEPT !.hist = hist1, !.thrown = TRUE]

\* loadDailyChallengeCard: a challenge is generated only when there is none,
\* and the card then shows the challenge's progress
loadDailyChallengeCard(w, pick) ==
    CHOOSE w2 \in
      {ReadProgress(w1, "card") :
         w1 \in {IF w.ud.dailyChallenge = NoChallenge
                 THEN generateDailyChallenge(w, pick) ELSE w}} : TRUE

\* updateAllStats; an error thrown by saveDailyStats leaves the method
updateAllStats(w, tieDown, pick) ==
    CHOOSE w5 \in
      {IF w4.thrown THEN w4 ELSE saveHistoricalData(w4) :
         w4 \in {saveDailyStats(w3) :
         w3 \in {saveData(w2) :
         w2 \in {loadDailyChallengeCard(w1, pick) :
         w1 \in {calculateWellnessScore(w, tieDown)}}}}} : TRUE

(* ---------------- the rating pipeline ---------------- *)
\* this.sessionStartTime = Date.now() in the constructor: the model counts
\* time from there
sessionStartTime == 0

\* what Date.now() returns at that moment, time being counted from 1970: a
\* timestamp of 0 in the program lies Epoch ms before the session
Epoch == 1000000000

\* a stage of the rating event has run to its end
Stage(w, name) == IF w.thrown THEN w ELSE [w EXCEPT !.ev.stages = Append(@, name)]

\* the XP of a rating: Math.round(baseXP * multiplier), multiplier in halves
XpGained(ud, aligned, rating) ==
    LET baseXP == IF aligned THEN 15 ELSE 5
        twice == (IF ud.streak >= 30 THEN 6 ELSE IF ud.streak >= 7 THEN 4 ELSE 2)
                 + (IF ud.qualityStreakCurrent >= 5 THEN 1 ELSE 0)
    IN  IF rating = "valuable" THEN Round(baseXP * twice, 2)
        ELSE IF rating = "skip" /\ ~aligned THEN 3
        ELSE 0

\* rating === 'valuable' && isAligned
IsQualityNever(aligned, rating) == FALSE
IsQuality(aligned, rating) == rating = "valuable" /\ aligned

\* the best quality streak, the current one having been updated
BestStreakIsCurrent(best, current) == current
BestStreak(best, current) == IF current > best THEN current ELSE best

\* rateContent, lines 1706-1812: the rating enters the ledgers, the counters,
\* the quality streak and the XP
RecordRating(w, goal, aligned, rating) ==
    LET ratingData == [goal |-> goal, aligned |-> aligned, rating |-> rating,
                       timestamp |-> now]
        quality == IsQuality(aligned, rating)
        current == IF quality THEN w.ud.qualityStreakCurrent + 1 ELSE 0
    IN  CHOOSE w3 \in
          {[w2 EXCEPT !.ud.dailyStats.contentViewed = @ + 1] :
             w2 \in {IF rating = "valuable"
                     THEN AddActivity([w1 EXCEPT !.ud.xp = @ + XpGained(w1.ud, aligned, rating)],
                                      "xp", XpGained(w1.ud, aligned, rating))
                     ELSE [w1 EXCEPT !.ud.xp = @ + XpGained(w1.ud, aligned, rating)] :
             w1 \in {[w EXCEPT
                        !.ud.contentRatings = Append(@, ratingData),
                        !.ud.sessionRatings = Append(@, ratingData),
                        !.ud.totalContentRated = @ + 1,
                        !.ud.totalValuableContent =
                            IF rating = "valuable" THEN @ + 1 ELSE @,
                        !.ud.qualityStreakCurrent = current,
                        !.ud.qualityStreakBest = BestStreak(@, current),
                        !.sac = IF quality THEN @ + 1 ELSE @]}}} : TRUE

\* the messages of provideLiveCoaching; the first four are drawn at random
CoachingMessages ==
    <<"in the zone", "excellent flow", "amazing alignment", "on fire",
      "skipping a lot", "quick stretch", "5 in a row">>

\* gentle course correction: valuableRate < 0.3 && recentRatings.length >= 8
CourseCorrectionNever(n, valuable) == FALSE
CourseCorrection(n, valuable) == 10 * valuable < 3 * n /\ n >= 8

\* provideLiveCoaching; pick: the index Math.random() selects
provideLiveCoaching(w, pick) ==
    LET recentRatings == SliceLast(w.ud.sessionRatings, 10)
        n == Len(recentRatings)
        valuable == Len(SelectSeq(recentRatings, LAMBDA r : r.rating = "valuable"))
        aligned == Len(SelectSeq(recentRatings, LAMBDA r : r.aligned))
        branch == IF 5 * valuable >= 4 * n /\ 5 * aligned >= 4 * n THEN pick
                  ELSE IF CourseCorrection(n, valuable) THEN 5
                  ELSE IF now - sessionStartTime > 30 * 60000 /\ 2 * valuable < n THEN 6
                  ELSE IF w.ud.qualityStreakCurrent = 5 THEN 7
                  ELSE 0
        w1 == IF branch = 5 THEN [w EXCEPT !.ud.mindlessScrollDetected = @ + 1] ELSE w
    IN  IF now - w.ud.lastNudgeTime < 120000 \/ n < 5 THEN w
        ELSE IF branch # 0 /\ CoachingMessages[branch] # w.lcm
        THEN [Nudge(w1, "Live Coaching", CoachingMessages[branch]) EXCEPT
                !.lcm = CoachingMessages[branch],
                !.ud.lastNudgeTime = now]
        ELSE w1

\* detectMindlessScrolling
detectMindlessScrolling(w) ==
    LET recent == SliceLast(w.ud.sessionRatings, 15)
        lastMinute == SelectSeq(recent, LAMBDA r : now - r.timestamp < 60000)
        skip == Len(SelectSeq(lastMinute, LAMBDA r : r.rating = "skip"))
    IN  IF Len(recent) >= 15 /\ Len(lastMinute) >= 10 /\ 10 * skip > 7 * Len(lastMinute)
        THEN [Nudge(w, "Slow Down", "take a breath") EXCEPT
                !.ud.mindlessScrollDetected = @ + 1,
                !.ud.lastNudgeTime = now]
        ELSE w

\* rateContent as a whole.  tieDown: the rounding of its two score
\* computations, which round the same sum; challenge, message: what
\* Math.random() selects
rateContent(w, goal, aligned, rating, tieDown, challenge, message) ==
    CHOOSE w9 \in
      {[w8 EXCEPT !.ev.threw = w8.thrown] :
         \* live coaching and behavioral nudges
         w8 \in {IF w7.thrown THEN w7 ELSE Stage(detectMindlessScrolling(w7), "nudges") :
         w7 \in {IF w6.thrown THEN w6 ELSE provideLiveCoaching(w6, message) :
         \* achievements and challenges
         w6 \in {Stage(w5, "progression") :
         w5 \in {IF w4.thrown THEN w4 ELSE checkAchievements(w4) :
         w4 \in {IF w3.thrown THEN w3 ELSE updateDailyChallengeProgress(w3, challenge) :
         \* stats
         w3 \in {Stage(w2, "score") :
         w2 \in {updateAllStats(w1, tieDown, challenge) :
         w1 \in {calculateWellnessScore(w0, tieDown) :
         \* the rating
         w0 \in {Stage(RecordRating(
                          [w EXCEPT !.ev = [n |-> @.n + 1, stages |-> <<>>,
                                            toasts |-> <<>>, threw |-> FALSE]],
                          goal, aligned, rating),
                        "record")}}}}}}}}}} : TRUE

\* the mood enters the history and the activity log
PushMood(w, mood) ==
    AddActivity([w EXCEPT !.ud.moodHistory =
                    Append(@, [mood |-> mood, time |-> now, score |-> getMoodScore(mood)])],
                "check-in", mood)

\* recordMood; both computations round the same sum
recordMood(w, mood, tieDown, challenge) ==
    CHOOSE w3 \in
      {updateAllStats(w2, tieDown, challenge) :
         w2 \in {calculateWellnessScore(w1, tieDown) :
         w1 \in {PushMood(w, mood)}}} : TRUE

(* ---------------- initial state ---------------- *)
\* the constructor's userData
RestBytes == 2000
InitUserData ==
    [xp |-> 0, level |-> 1, streak |-> 0, goals |-> <<"learn", "chill">>,
     wellnessScore |-> 85, screenTime |-> 0, moodHistory |-> <<>>,
     activityHistory |-> <<>>, contentRatings |-> <<>>,
     \* loadDailyStats with nothing saved
     dailyStats |-> [date |-> 0, screenTime |-> 0, xpEarned |-> 0, contentViewed |-> 0,
                     wellnessScores |-> <<85>>],
     achievements |-> <<>>, dailyChallenge |-> NoChallenge, challengeProgress |-> 0,
     totalContentRated |-> 0, totalValuableContent |-> 0, sessionRatings |-> <<>>,
     lastNudgeTime |-> 0 - Epoch, mindlessScrollDetected |-> 0,
     qualityStreakCurrent |-> 0, qualityStreakBest |-> 0,
     \* the bytes of the fields left out of the model
     rest |-> RestBytes]

\* loadHistoricalData with nothing saved: the last 7 days at 85
BaselineHistory(today) ==
    [i \in 1..7 |-> [date |-> today - 7 + i, wellnessScore |-> 85, screenTime |-> 0,
                     xpEarned |-> 0]]

NoEvent == [n |-> 0, stages |-> <<>>, toasts |-> <<>>, threw |-> FALSE]

\* the store after a session that saved ud and hist
Saved(ud, hist, capacity) ==
    [scrollBalancePro |-> ud, dailyStats |-> ud.dailyStats, historicalData |-> hist,
     used |-> [scrollBalancePro |-> BytesOfUserData(ud),
               dailyStats |-> BytesOfDailyStats(ud.dailyStats),
               historicalData |-> BytesOfHistory(hist)],
     capacity |-> capacity]

\* the pages navigateTo is called with: the data-page of a nav item, or the
\* page of a keyboard shortcut
PageNames == {"dashboard", "feed", "analytics", "goals", "settings", "about"}

\* the document as loaded, with a nav item for each page of navItems and a
\* page element for each page of pageElements: the dashboard is the active
\* page, no navigation is in progress (isNavigating = false).  bodies counts
\* the navigateTo calls past the lock that have not reached their finally;
\* failed is the page of the latest body if it ended in its catch block.
Document(navItems, pageElements) ==
    [isNavigating |-> FALSE, activeNav |-> "dashboard", activePage |-> "dashboard",
     awaiting |-> "none", bodies |-> 0, failed |-> "none",
     navItems |-> navItems, pageElements |-> pageElements]

\* extension/background.js as loaded: nothing tracked, currentTabId null
\* (0), lastUpdateTime the time of loading.  tabs: the hostname each tab
\* shows; pending: the chrome.tabs.get calls whose callback has not run, each
\* with the tab asked for and, for the record, the hostname that tab showed
\* and the whole seconds since the previous update when updateSiteTime was
\* called; minuteDue: when the interval fires next; events: tab events so far.
Hostnames == {"reddit.com", "youtube.com"}
TabIds == {1, 2}
MinuteMs == 60000
ServiceWorker ==
    [siteTracking |-> [d \in Hostnames |-> 0], currentTabId |-> 0, lastUpdateTime |-> 0,
     tabs |-> [t \in TabIds |-> IF t = 1 THEN "reddit.com" ELSE "youtube.com"],
     pending |-> <<>>, minuteDue |-> MinuteMs, events |-> 0]

\* the 5 MB most browsers give an origin
DefaultQuota == 5242880

\* the fields the constructor sets, before init()
Constructed(ud, hist) ==
    [ud |-> ud, hist |-> hist,
     ls |-> EmptyStorage(DefaultQuota),
     sac |-> 0, lcm |-> "none", ev |-> NoEvent, reads |-> {}, nudges |-> <<>>,
     saves |-> {}, nav |-> Document(PageNames, PageNames),
     sw |-> ServiceWorker, thrown |-> FALSE]

\* init(): updateAllStats, generateDailyChallenge, checkAchievements, each
\* evaluated once, an error ending it
init(w, pick) ==
    CHOOSE w3 \in {IF w2.thrown THEN w2 ELSE checkAchievements(w2) :
                     w2 \in {IF w1.thrown THEN w1 ELSE generateDailyChallenge(w1, pick) :
                               w1 \in {updateAllStats(w, FALSE, pick)}}} : TRUE

\* a first start, nothing saved, the day's challenge being challenges[pick]
Started(pick) ==
    \E w \in {init(Constructed(InitUserData, BaselineHistory(0)), pick)} : IsWorld(w)

\* the state after construction, the day's challenge drawn among picks.  The
\* limiter and the feed neither read nor write the challenge: their
\* specifications start from the first one.
InitApp(picks) ==
    /\ now = 0
    /\ pc = [c \in Callers |-> "idle"]
    /\ wakeAt = [c \in Callers |-> 0]
    /\ frame = [c \in Callers |-> EmptyFrame]
    /\ cycle = [c \in Callers |-> EmptyCycle]
    /\ redditCache = EmptyCache
    /\ cacheHistory = EmptyHistory
    /\ currentFeedFilter = "all"
    /\ currentFeedContent = <<>>
    /\ \E pick \in picks : Started(pick)

(* ---------------- specification: the limiter alone ---------------- *)
InitLimiter ==
    /\ InitApp({1})
    /\ requests = <<>>
    /\ budget = [clicks |-> 0, toggles |-> 0, ratings |-> 0, calls |-> 0, checks |-> 0]

NextLimiter ==
    \/ Tick
    \/ \E c \in Callers : ThrottleCall(c)
    \/ \E c \in Callers : ThrottleResume(c)

SpecLimiter == InitLimiter /\ [][NextLimiter]_vars

\* one caller, its calls back to back
NextLimiterSeq ==
    \/ Tick
    \/ ThrottleCall("c1")
    \/ ThrottleResume("c1")

SpecLimiterSeq == InitLimiter /\ [][NextLimiterSeq]_vars

(* ---------------- specification: fetch cycles ---------------- *)
FetchTickMs == 150000
FetchMaxTime == 300000
MaxClicks == 2
MaxToggles == 1
FetchFilters == {"all", "goal-aligned"}
ToggleIds == {"sleep"}
Outcomes == {"ok", "empty", "error"}
RetryAfterHeaders == {<<>>, <<120>>}

TickFetch ==
    /\ Advance(FetchTickMs, FetchMaxTime)
    /\ UNCHANGED <<requests, pc, wakeAt, appVars>>

\* the window is empty, or one short of full after earlier cycles that
\* returned nothing
InitFetch ==
    /\ InitApp({1})
    /\ requests \in {<<>>, [i \in 1..(maxRequests - 1) |-> 0]}
    /\ budget = [clicks |-> MaxClicks, toggles |-> MaxToggles,
                 ratings |-> 0, calls |-> 0, checks |-> 0]

NextFetch ==
    \/ TickFetch
    \/ \E f \in FetchFilters : SelectFilter("c1", f)
    \/ \E c \in Callers : ThrottleWake(c)
    \/ \E c \in Callers, o \in Outcomes : Response(c, o)
    \/ \E c \in Callers, h \in RetryAfterHeaders : RateLimited(c, h)
    \/ \E c \in Callers : RetryWake(c)
    \/ \E g \in ToggleIds : ToggleGoal(g)

SpecFetch == InitFetch /\ [][NextFetch]_vars

(* ---------------- specification: overlapping fetches filling the cache --- *)
\* the feed's filter buttons, by their lower-cased text; the user clicks the
\* button clicked last or the one after it, the first following the last
FilterButtons == <<"all", "goal-aligned", "educational", "news", "science", "art",
                   "music", "sports", "health", "travel", "food", "books", "games">>
NumFilters == 11
CacheTickMs == 300000
CacheMaxTime == 300000
MaxCacheClicks == 4
Preloaded == 9
MaxCacheToggles == 1

\* an invocation takes the first caller that is not in flight
FreeCaller == IF pc["c1"] = "idle" THEN "c1" ELSE "c2"

TickCache ==
    /\ Advance(CacheTickMs, CacheMaxTime)
    /\ UNCHANGED <<requests, pc, wakeAt, appVars>>

\* the posts of a cycle for filter f whose listings all arrived with a post
PostsFor(f, gs) ==
    LET subs == Slice(getSubredditsForGoals(f, gs), 3)
    IN  [i \in 1..Len(subs) |-> PostOf(subs[i], gs)]

RECURSIVE CacheAfter(_)
\* the cache after one cycle for each of the first k filter buttons, at time 0
CacheAfter(k) ==
    IF k = 0 THEN EmptyCache
    ELSE StoreResult(CacheAfter(k - 1), CacheKey(FilterButtons[k], InitUserData.goals),
                     PostsFor(FilterButtons[k], InitUserData.goals), 0)

\* the state after Preloaded cycles, one for each of the first filter buttons
\* in turn, all at time 0 and each with every listing arrived
InitCache ==
    /\ now = 0
    /\ pc = [c \in Callers |-> "idle"]
    /\ wakeAt = [c \in Callers |-> 0]
    /\ frame = [c \in Callers |-> EmptyFrame]
    /\ cycle = [c \in Callers |->
                  IF c = "c1"
                  THEN [subreddits |-> Slice(getSubredditsForGoals(
                                            FilterButtons[Preloaded], InitUserData.goals), 3),
                        log |-> <<"ok", "ok", "ok">>, issuedAt |-> 0, last429 |-> <<>>,
                        returned |-> PostsFor(FilterButtons[Preloaded], InitUserData.goals),
                        done |-> TRUE]
                  ELSE EmptyCycle]
    /\ redditCache = CacheAfter(Preloaded)
    /\ cacheHistory = [n |-> Preloaded,
                       order |-> {<<CacheKey(FilterButtons[j], InitUserData.goals), j>> :
                                    j \in 1..Preloaded},
                       evicted |-> {}, hits |-> 0]
    /\ currentFeedFilter = FilterButtons[Preloaded]
    /\ currentFeedContent = PostsFor(FilterButtons[Preloaded], InitUserData.goals)
    /\ Started(1)
    /\ requests = [i \in 1..(3 * Preloaded) |-> 0]
    /\ budget = [clicks |-> MaxCacheClicks, toggles |-> MaxCacheToggles,
                 ratings |-> 0, calls |-> 0, checks |-> 0]

NextCache ==
    \/ TickCache
    \/ \E c \in Callers, j \in 1..NumFilters :
          /\ j \in {IndexOf(FilterButtons, currentFeedFilter),
                    (IndexOf(FilterButtons, currentFeedFilter) % NumFilters) + 1}
          /\ c = FreeCaller
          /\ SelectFilter(c, FilterButtons[j])
    \/ \E c \in Callers : ThrottleWake(c)
    \/ \E c \in Callers : Response(c, "ok")
    \/ \E g \in ToggleIds : ToggleGoal(g)

SpecCache == InitCache /\ [][NextCache]_vars

(* ---------------- specification: the wellness score ---------------- *)
\* the inputs of calculateWellnessScore, drawn from the data a user can have
\* saved: a ledger of n ratings of which the first a are aligned and the last
\* v valuable, over g goals in turn
MaxLedger == 21
Ledger(n, a, v, g) ==
    [i \in 1..n |-> [goal |-> GoalOrder[((i - 1) % g) + 1], aligned |-> i <= a,
                     rating |-> IF i > n - v THEN "valuable" ELSE "skip",
                     timestamp |-> 0]]
LedgerSizes == {0, 10, MaxLedger}
Portions(n) == {0, n}
ScreenTimes == {0, 22500, 90000}
MoodEntry(mood) == [mood |-> mood, time |-> 0, score |-> getMoodScore(mood)]
MoodHistories ==
    {<<>>,
     <<MoodEntry("happy"), MoodEntry("calm"), MoodEntry("focused")>>,
     <<MoodEntry("happy"), MoodEntry("tired"), MoodEntry("stressed"),
       MoodEntry("stressed")>>}
Streaks == {0, 7}
PreviousScores == {20, 85, 100}
Histories ==
    {BaselineHistory(0),
     [i \in 1..5 |-> [date |-> i - 5, wellnessScore |-> 20, screenTime |-> 0,
                      xpEarned |-> 0]]}
ScoreTimes == {0, 3600000}
Moods == {"happy", "stressed"}
\* the handlers run in a behaviour
MaxCalls == 2

\* the challenge saved earlier in the day
SavedChallenge ==
    [id |-> "rate_10", target |-> 10, progress |-> 0, type |-> "ratings",
     xpReward |-> 100, date |-> 0]

\* the state init() finds after loadData()
InitScore ==
    /\ now \in ScoreTimes
    /\ requests = <<>>
    /\ pc = [c \in Callers |-> "idle"]
    /\ wakeAt = [c \in Callers |-> 0]
    /\ frame = [c \in Callers |-> EmptyFrame]
    /\ cycle = [c \in Callers |-> EmptyCycle]
    /\ redditCache = EmptyCache
    /\ cacheHistory = EmptyHistory
    /\ currentFeedFilter = "all"
    /\ currentFeedContent = <<>>
    /\ budget = [clicks |-> 0, toggles |-> 0, ratings |-> 0, calls |-> MaxCalls,
                 checks |-> 0]
    /\ \E n \in LedgerSizes, g \in {1, 5}, st \in ScreenTimes, mh \in MoodHistories,
          sk \in Streaks, prev \in PreviousScores, hist \in Histories :
         \E a \in Portions(n), v \in Portions(n) :
           LET ud == [InitUserData EXCEPT
                        !.contentRatings = Ledger(n, a, v, g),
                        !.totalContentRated = n,
                        !.totalValuableContent = v,
                        !.dailyStats.screenTime = st,
                        !.screenTime = st,
                        !.moodHistory = mh,
                        !.streak = sk,
                        !.wellnessScore = prev,
                        !.dailyChallenge = SavedChallenge,
                        !.dailyStats.wellnessScores = <<prev>>]
               w == Constructed(ud, hist)
           IN  IsWorld([w EXCEPT !.ls = Saved(ud, hist, DefaultQuota)])

\* a call of calculateWellnessScore
CalculateWellnessScore(tieDown) ==
    /\ budget.calls > 0
    /\ budget' = [budget EXCEPT !.calls = @ - 1]
    /\ \E w \in {calculateWellnessScore(World, tieDown)} : Commit(w)
    /\ UNCHANGED <<now, requests, pc, wakeAt, feedVars>>

\* updateAllStats, as init() and the tracking interval call it
UpdateAllStats(tieDown, pick) ==
    /\ budget.calls > 0
    /\ budget' = [budget EXCEPT !.calls = @ - 1]
    /\ \E w \in {updateAllStats(World, tieDown, pick)} : Commit(w)
    /\ UNCHANGED <<now, requests, pc, wakeAt, feedVars>>

\* a mood card's click handler
RecordMood(mood, tieDown, pick) ==
    /\ budget.calls > 0
    /\ budget' = [budget EXCEPT !.calls = @ - 1]
    /\ \E w \in {recordMood(World, mood, tieDown, pick)} : Commit(w)
    /\ UNCHANGED <<now, requests, pc, wakeAt, feedVars>>

NextScore ==
    \/ \E tieDown \in Roundings(World) : CalculateWellnessScore(tieDown)
    \/ \E tieDown \in Roundings(World), pick \in Picks(World) :
          UpdateAllStats(tieDown, pick)
    \/ \E mood \in Moods :
          \E tieDown \in Roundings(PushMood(World, mood)), pick \in Picks(World) :
             RecordMood(mood, tieDown, pick)

SpecScore == InitScore /\ [][NextScore]_vars

(* ---------------- specification: rating events ---------------- *)
RateTickMs == 60000
RateMaxTime == 120000
MaxRatings == 3
RateGoals == {"learn", "fitness"}
Ratings == {"valuable", "skip"}

\* what Math.random() can select in provideLiveCoaching, which draws only
\* with 5 session ratings or more
MessagePicks(w) == IF Len(w.ud.sessionRatings) + 1 >= 5 THEN 1..4 ELSE {1}

\* a card's "valuable" or "skip" button is clicked
RateContent(goal, aligned, rating) ==
    /\ budget.ratings > 0
    /\ budget' = [budget EXCEPT !.ratings = @ - 1]
    /\ \E tieDown \in Roundings(RecordRating(World, goal, aligned, rating)),
          challenge \in Picks(World), message \in MessagePicks(World) :
         \E w \in {rateContent(World, goal, aligned, rating, tieDown, challenge,
                                message)} : Commit(w)
    /\ UNCHANGED <<now, requests, pc, wakeAt, feedVars>>

TickRate ==
    /\ Advance(RateTickMs, RateMaxTime)
    /\ UNCHANGED <<requests, pc, wakeAt, appVars>>

InitRate ==
    /\ InitApp(1..Len(challenges))
    /\ requests = <<>>
    /\ budget = [clicks |-> 0, toggles |-> 0, ratings |-> MaxRatings, calls |-> 0,
                 checks |-> 0]

NextRate ==
    \/ TickRate
    \/ \E goal \in RateGoals, aligned \in BOOLEAN, rating \in Ratings :
          RateContent(goal, aligned, rating)

SpecRate == InitRate /\ [][NextRate]_vars

(* ---------------- specification: progression over days ---------------- *)
DayTickMs == 86400000
DayMaxTime == 172800000
MaxDayRatings == 3
MaxDayCalls == 2
MaxDayChecks == 1
\* the cards rated: one aligned and found valuable, one off-goal and skipped
RatedCards ==
    {[aligned |-> TRUE, rating |-> "valuable"], [aligned |-> FALSE, rating |-> "skip"]}

\* a call of checkAchievements, as init() makes it
CheckAchievements ==
    /\ budget.checks > 0
    /\ budget' = [budget EXCEPT !.checks = @ - 1]
    /\ \E w \in {checkAchievements(World)} : Commit(w)
    /\ UNCHANGED <<now, requests, pc, wakeAt, feedVars>>

\* a call of generateDailyChallenge, as init() makes it
GenerateDailyChallenge(pick) ==
    /\ budget.calls > 0
    /\ budget' = [budget EXCEPT !.calls = @ - 1]
    /\ \E w \in {generateDailyChallenge(World, pick)} : Commit(w)
    /\ UNCHANGED <<now, requests, pc, wakeAt, feedVars>>

\* a call of updateDailyChallengeProgress
UpdateDailyChallengeProgress(pick) ==
    /\ budget.calls > 0
    /\ budget' = [budget EXCEPT !.calls = @ - 1]
    /\ \E w \in {updateDailyChallengeProgress(World, pick)} : Commit(w)
    /\ UNCHANGED <<now, requests, pc, wakeAt, feedVars>>

TickDay ==
    /\ Advance(DayTickMs, DayMaxTime)
    /\ UNCHANGED <<requests, pc, wakeAt, appVars>>

InitDay ==
    /\ InitApp(1..Len(challenges))
    /\ requests = <<>>
    /\ budget = [clicks |-> 0, toggles |-> 0, ratings |-> MaxDayRatings,
                 calls |-> MaxDayCalls, checks |-> MaxDayChecks]

NextDay ==
    \/ TickDay
    \/ \E r \in RatedCards : RateContent("learn", r.aligned, r.rating)
    \/ CheckAchievements
    \/ \E pick \in Picks(World) : GenerateDailyChallenge(pick)
    \/ \E pick \in Picks(World) : UpdateDailyChallengeProgress(pick)
    \/ \E tieDown \in Roundings(World), pick \in Picks(World) :
          UpdateAllStats(tieDown, pick)

SpecDay == InitDay /\ [][NextDay]_vars

(* ---------------- specification: a session of quick ratings ---------------- *)
NudgeTickMs == 45000
NudgeMaxTime == 90000
MaxNudgeRatings == 10
MaxNudgeValuable == 2

TickNudge ==
    /\ Advance(NudgeTickMs, NudgeMaxTime)
    /\ UNCHANGED <<requests, pc, wakeAt, appVars>>

InitNudge ==
    /\ InitApp(1..Len(challenges))
    /\ requests = <<>>
    /\ budget = [clicks |-> 0, toggles |-> 0, ratings |-> MaxNudgeRatings,
                 calls |-> 0, checks |-> 0]

\* cards are rated one after the other, few of them found valuable
NextNudge ==
    \/ TickNudge
    \/ \E r \in RatedCards :
          /\ r.rating = "valuable" => userData.totalValuableContent < MaxNudgeValuable
          /\ RateContent("learn", r.aligned, r.rating)

SpecNudge == InitNudge /\ [][NextNudge]_vars

(* ---------------- specification: a session of skips ---------------- *)
MaxFloodRatings == 16

InitFlood ==
    /\ InitApp(1..Len(challenges))
    /\ requests = <<>>
    /\ budget = [clicks |-> 0, toggles |-> 0, ratings |-> MaxFloodRatings,
                 calls |-> 0, checks |-> 0]

\* off-goal cards are skipped one after the other
NextFlood ==
    \/ TickNudge
    \/ RateContent("learn", FALSE, "skip")

SpecFlood == InitFlood /\ [][NextFlood]_vars

(* ---------------- specification: a quality streak ---------------- *)
MaxStreakRatings == 20

InitStreak ==
    /\ InitApp(1..Len(challenges))
    /\ requests = <<>>
    /\ budget = [clicks |-> 0, toggles |-> 0, ratings |-> MaxStreakRatings,
                 calls |-> 0, checks |-> 0]

\* on-goal cards are found valuable one after the other
NextStreak ==
    \/ TickNudge
    \/ RateContent("learn", TRUE, "valuable")

SpecStreak == InitStreak /\ [][NextStreak]_vars

(* ---------------- specification: saving near the quota ---------------- *)
\* A session that starts from saved data: a ledger of skipped cards at or
\* just under 100 entries, user data small or above the 4.5 MB threshold,
\* and a store that is full, nearly full or has the whole quota.
MaxSavedLedger == 100
SmallSlack == 300
BigRest == 5000000
SaveTickMs == 45000
SaveMaxTime == 90000
MaxSaveRatings == 3
MaxSaveCalls == 2

SavedLedgerSizes == {MaxSavedLedger - 1, MaxSavedLedger}
Rests == {RestBytes, BigRest}
Slacks == {0, SmallSlack}

\* the user data of the earlier session
SavedUserData(n, rest) ==
    [InitUserData EXCEPT !.contentRatings = Ledger(n, 0, 0, 1),
                         !.totalContentRated = n,
                         !.rest = rest]

\* the store the session finds: what was saved, and the room that is left
Quotas(ud, hist) ==
    {DefaultQuota} \cup
    {BytesOfUserData(ud) + BytesOfDailyStats(ud.dailyStats) + BytesOfHistory(hist) + s :
       s \in Slacks}

TickSave ==
    /\ Advance(SaveTickMs, SaveMaxTime)
    /\ UNCHANGED <<requests, pc, wakeAt, appVars>>

\* a call of saveData on its own, as after an import or a settings change
SaveData ==
    /\ budget.calls > 0
    /\ budget' = [budget EXCEPT !.calls = @ - 1]
    /\ \E w \in {saveData(World)} : Commit(w)
    /\ UNCHANGED <<now, requests, pc, wakeAt, feedVars>>

InitSave ==
    /\ now = 0
    /\ requests = <<>>
    /\ pc = [c \in Callers |-> "idle"]
    /\ wakeAt = [c \in Callers |-> 0]
    /\ frame = [c \in Callers |-> EmptyFrame]
    /\ cycle = [c \in Callers |-> EmptyCycle]
    /\ redditCache = EmptyCache
    /\ cacheHistory = EmptyHistory
    /\ currentFeedFilter = "all"
    /\ currentFeedContent = <<>>
    /\ budget = [clicks |-> 0, toggles |-> 0, ratings |-> MaxSaveRatings,
                 calls |-> MaxSaveCalls, checks |-> 0]
    /\ \E n \in SavedLedgerSizes, rest \in Rests :
         \E ud \in {SavedUserData(n, rest)}, hist \in {BaselineHistory(0)} :
           \E capacity \in Quotas(ud, hist) :
             \E w \in {init([Constructed(ud, hist) EXCEPT
                               !.ls = Saved(ud, hist, capacity)], 1)} : IsWorld(w)

NextSave ==
    \/ TickSave
    \/ SaveData
    \/ RateContent("learn", FALSE, "skip")

SpecSave == InitSave /\ [][NextSave]_vars

(* ---------------- specification: the tracking interval ---------------- *)
\* checkMilestones: the activity entry of every 15th minute, minute 0
\* included (the reflection modal only opens a dialog)
checkMilestones(w) ==
    LET minutes == w.ud.screenTime \div 60
    IN  IF minutes % 15 = 0 THEN AddActivity(w, "check-in", minutes) ELSE w

\* the callback startTracking sets on a 1000 ms interval.  tracked: the page
\* is visible and the user interacted in the last 30 seconds.  The callback
\* reads the clock of the second that ends with it.
trackingInterval(w, tracked, tieDown, pick) ==
    CHOOSE w3 \in
      {IF ~w2.thrown /\ w2.ud.screenTime % 60 = 0 THEN checkMilestones(w2) ELSE w2 :
         w2 \in {IF w1.ud.screenTime % 10 = 0 THEN updateAllStats(w1, tieDown, pick)
                 ELSE w1 :
         w1 \in {IF tracked
                 THEN [w EXCEPT !.ud.screenTime = @ + 1,
                                !.ud.dailyStats.screenTime = @ + 1]
                 ELSE w}}} : TRUE

\* the roundings the build can produce for the score the callback computes
TrackRoundings(w, tracked) ==
    Roundings(IF tracked THEN [w EXCEPT !.ud.screenTime = @ + 1,
                                        !.ud.dailyStats.screenTime = @ + 1]
              ELSE w)

TrackTickMs == 1000
TrackMaxTime == 12000
MaxTrackRatings == 2

\* the interval fires
TrackingInterval(tracked) ==
    /\ Advance(TrackTickMs, TrackMaxTime)
    /\ \E tieDown \in TrackRoundings(World, tracked), pick \in Picks(World) :
         \E w \in {trackingInterval(World, tracked, tieDown, pick)} : Commit(w)
    /\ UNCHANGED <<requests, pc, wakeAt, feedVars, budget>>

InitTrack ==
    /\ InitApp({1})
    /\ requests = <<>>
    /\ budget = [clicks |-> 0, toggles |-> 0, ratings |-> MaxTrackRatings,
                 calls |-> 0, checks |-> 0]

NextTrack ==
    \/ \E tracked \in BOOLEAN : TrackingInterval(tracked)
    \/ \E r \in RatedCards : RateContent("learn", r.aligned, r.rating)

SpecTrack == InitTrack /\ [][NextTrack]_vars

(* ---------------- levels ---------------- *)
\* getXPForLevel: Math.floor(100 * Math.pow(level - 1, 1.5)), the integer
\* square root of 10000 * (level - 1)^3
getXPForLevel(level) ==
    LET n == level - 1
    IN  IF n <= 0 THEN 0
        ELSE CHOOSE r \in (100 * n)..(100 * n * n) :
               r * r <= 10000 * n * n * n /\ (r + 1) * (r + 1) > 10000 * n * n * n

(* ---------------- navigation ---------------- *)
\* if (this.isNavigating) return
LockedNever(w) == FALSE
Locked(w) == w.nav.isNavigating

\* finally: the lock is released
Finally(w) == [w EXCEPT !.nav.isNavigating = FALSE, !.nav.bodies = @ - 1]

\* navigateTo up to its first suspension or its end, and its catch block.
\* chart: Chart.js is loaded, so that loadAnalytics suspends on its
\* animation frames.  The loaders of the goals and feed pages return without
\* suspending; the feed's fetch is started by the action.
RECURSIVE navigateTo(_, _, _)
RECURSIVE CatchNavigation(_, _, _)
navigateTo(w, pageName, chart) ==
    IF Locked(w) THEN w
    ELSE LET w1 == [w EXCEPT !.nav.isNavigating = TRUE, !.nav.bodies = @ + 1,
                             !.nav.failed = "none", !.nav.activeNav = "none"]
             w2 == [w1 EXCEPT !.nav.activeNav = pageName, !.nav.activePage = "none"]
             w3 == [w2 EXCEPT !.nav.activePage = pageName]
         IN  IF pageName \notin w.nav.navItems THEN CatchNavigation(w1, pageName, chart)
             ELSE IF pageName \notin w.nav.pageElements
             THEN CatchNavigation(w2, pageName, chart)
             ELSE IF pageName = "analytics" /\ chart
             THEN [w3 EXCEPT !.nav.awaiting = pageName]
             ELSE Finally(w3)

\* catch (error): the fallback call of navigateTo('dashboard'), then finally
CatchNavigation(w, pageName, chart) ==
    LET w1 == [w EXCEPT !.nav.failed = pageName]
    IN  Finally(IF pageName # "dashboard" THEN navigateTo(w1, "dashboard", chart) ELSE w1)

\* the body reaches loadSmartFeed
LoadsFeed(w, pageName) ==
    /\ ~Locked(w)
    /\ pageName = "feed"
    /\ pageName \in w.nav.navItems
    /\ pageName \in w.nav.pageElements

\* a nav item is clicked or a shortcut key pressed; c: the invocation of
\* fetchRealContent that loadSmartFeed starts
NavigateTo(c, pageName, chart) ==
    /\ budget.clicks > 0
    /\ budget' = [budget EXCEPT !.clicks = @ - 1]
    /\ LoadsFeed(World, pageName) => pc[c] = "idle"
    /\ \E w \in {navigateTo(World, pageName, chart)} : Commit(w)
    /\ IF LoadsFeed(World, pageName)
       THEN /\ currentFeedFilter' = "all"
            /\ FetchRealContent(c, "all")
       ELSE UNCHANGED <<requests, pc, wakeAt, feedVars>>
    /\ UNCHANGED now

\* loadAnalytics settles after its animation frames: the charts are drawn
\* (ok), or drawing one throws and the promise rejects
AnalyticsSettled(ok) ==
    /\ navigation.awaiting = "analytics"
    /\ \E w \in {IF ok THEN Finally([World EXCEPT !.nav.awaiting = "none"])
                 ELSE CatchNavigation([World EXCEPT !.nav.awaiting = "none"],
                                      "analytics", TRUE)} : Commit(w)
    /\ UNCHANGED <<now, requests, pc, wakeAt, feedVars, budget>>

(* ---------------- specification: navigation ---------------- *)
MaxNavClicks == 4
\* the documents: complete, without a nav item for "about", without the
\* element of the settings page
Documents ==
    {Document(PageNames, PageNames),
     Document(PageNames \ {"about"}, PageNames),
     Document(PageNames, PageNames \ {"settings"})}

InitNav ==
    /\ now = 0
    /\ requests = <<>>
    /\ pc = [c \in Callers |-> "idle"]
    /\ wakeAt = [c \in Callers |-> 0]
    /\ frame = [c \in Callers |-> EmptyFrame]
    /\ cycle = [c \in Callers |-> EmptyCycle]
    /\ redditCache = EmptyCache
    /\ cacheHistory = EmptyHistory
    /\ currentFeedFilter = "all"
    /\ currentFeedContent = <<>>
    /\ budget = [clicks |-> MaxNavClicks, toggles |-> 0, ratings |-> 0, calls |-> 0,
                 checks |-> 0]
    /\ \E doc \in Documents :
         \E w \in {init([Constructed(InitUserData, BaselineHistory(0)) EXCEPT
                           !.nav = doc], 1)} : IsWorld(w)

NextNav ==
    \/ \E pageName \in PageNames, chart \in BOOLEAN : NavigateTo("c1", pageName, chart)
    \/ \E ok \in BOOLEAN : AnalyticsSettled(ok)
    \/ \E o \in Outcomes : Response("c1", o)

SpecNav == InitNav /\ [][NextNav]_vars

(* ---------------- the extension's background service worker ---------------- *)
\* updateSiteTime up to its chrome.tabs.get call, whose callback runs later
updateSiteTime(sw) ==
    IF sw.currentTabId = 0 THEN sw
    ELSE [sw EXCEPT !.pending =
            Append(@, [tabId |-> sw.currentTabId,
                       hostname |-> sw.tabs[sw.currentTabId],
                       elapsed |-> (now - sw.lastUpdateTime) \div 1000])]

\* chrome.tabs.onActivated
OnActivated(sw, tabId) ==
    [updateSiteTime(sw) EXCEPT !.currentTabId = tabId, !.lastUpdateTime = now,
                               !.events = @ + 1]

\* chrome.tabs.onUpdated with changeInfo.url: the tab shows hostname
OnUpdated(sw, tabId, hostname) ==
    LET sw1 == [sw EXCEPT !.tabs[tabId] = hostname, !.events = @ + 1]
    IN  IF tabId = sw1.currentTabId
        THEN [updateSiteTime(sw1) EXCEPT !.lastUpdateTime = now]
        ELSE sw1

\* the setInterval callback
OnMinute(sw) ==
    [updateSiteTime(sw) EXCEPT !.lastUpdateTime = now, !.minuteDue = @ + MinuteMs]

\* the callback of chrome.tabs.get: the tab as it is now, the clock and
\* lastUpdateTime as they are now
TabsGetCallback(sw) ==
    LET call == Head(sw.pending)
        domain == sw.tabs[call.tabId]
        timeSpent == (now - sw.lastUpdateTime) \div 1000
    IN  [sw EXCEPT !.pending = Tail(@), !.siteTracking[domain] = @ + timeSpent]

(* ---------------- specification: site tracking ---------------- *)
SiteTickMs == 20000
SiteMaxTime == 60000
MaxTabEvents == 3
MaxPending == 2

TickSite ==
    /\ Advance(SiteTickMs, SiteMaxTime)
    /\ now + SiteTickMs <= worker.minuteDue
    /\ UNCHANGED <<requests, pc, wakeAt, appVars>>

WorkerStep(sw) ==
    /\ Commit([World EXCEPT !.sw = sw])
    /\ UNCHANGED <<now, requests, pc, wakeAt, feedVars, userData, budget>>

TabActivated(tabId) ==
    /\ worker.events < MaxTabEvents
    /\ Len(worker.pending) < MaxPending
    /\ tabId # worker.currentTabId
    /\ WorkerStep(OnActivated(worker, tabId))

TabUpdated(tabId, hostname) ==
    /\ worker.events < MaxTabEvents
    /\ Len(worker.pending) < MaxPending
    /\ hostname # worker.tabs[tabId]
    /\ WorkerStep(OnUpdated(worker, tabId, hostname))

MinuteInterval ==
    /\ now = worker.minuteDue
    /\ Len(worker.pending) < MaxPending
    /\ WorkerStep(OnMinute(worker))

TabsGetReturns ==
    /\ worker.pending # <<>>
    /\ WorkerStep(TabsGetCallback(worker))

InitSite ==
    /\ InitApp({1})
    /\ requests = <<>>
    /\ budget = [clicks |-> 0, toggles |-> 0, ratings |-> 0, calls |-> 0, checks |-> 0]

NextSite ==
    \/ TickSite
    \/ \E tabId \in TabIds : TabActivated(tabId)
    \/ \E tabId \in TabIds, hostname \in Hostnames : TabUpdated(tabId, hostname)
    \/ MinuteInterval
    \/ TabsGetReturns

SpecSite == InitSite /\ [][NextSite]_vars

(* ---------------- specification: coaching over two minutes ---------------- *)
CoachTickMs == 60000
CoachMaxTime == 120000
MaxCoachRatings == 10

TickCoach ==
    /\ Advance(CoachTickMs, CoachMaxTime)
    /\ UNCHANGED <<requests, pc, wakeAt, appVars>>

InitCoach ==
    /\ InitApp({1})
    /\ requests = <<>>
    /\ budget = [clicks |-> 0, toggles |-> 0, ratings |-> MaxCoachRatings,
                 calls |-> 0, checks |-> 0]

\* off-goal cards are skipped, minutes pass
NextCoach ==
    \/ TickCoach
    \/ RateContent("learn", FALSE, "skip")

SpecCoach == InitCoach /\ [][NextCoach]_vars

(* ---------------- specification: the factors of the score ---------------- *)
\* Saved states over the bands of the time factor (seconds of screen time
\* today: none, half an hour, 1, 1.5, 2, 2.5, 3.5, 5, 6.25 and 25 hours),
\* ledgers below and above the 10 and 20 ratings the factors look at, and
\* the mood histories; the score is computed once.
FactorScreenTimes == {0, 1800, 3600, 5400, 7200, 9000, 12600, 18000, 22500, 90000}
MaxFactorCalls == 1
FactorLedgerSizes == {0, 3, 10, MaxLedger}
FactorPortions(n) == {0, n \div 3, n}

\* the user data loaded from such a state
ScoredUserData(n, a, v, g, st, mh, sk, prev) ==
    [InitUserData EXCEPT
       !.contentRatings = Ledger(n, a, v, g),
       !.totalContentRated = n,
       !.totalValuableContent = v,
       !.dailyStats.screenTime = st,
       !.screenTime = st,
       !.moodHistory = mh,
       !.streak = sk,
       !.wellnessScore = prev,
       !.dailyChallenge = SavedChallenge,
       !.dailyStats.wellnessScores = <<prev>>]

InitFactor ==
    /\ now \in ScoreTimes
    /\ requests = <<>>
    /\ pc = [c \in Callers |-> "idle"]
    /\ wakeAt = [c \in Callers |-> 0]
    /\ frame = [c \in Callers |-> EmptyFrame]
    /\ cycle = [c \in Callers |-> EmptyCycle]
    /\ redditCache = EmptyCache
    /\ cacheHistory = EmptyHistory
    /\ currentFeedFilter = "all"
    /\ currentFeedContent = <<>>
    /\ budget = [clicks |-> 0, toggles |-> 0, ratings |-> 0, calls |-> MaxFactorCalls,
                 checks |-> 0]
    /\ \E n \in FactorLedgerSizes, g \in {1, 3, 5}, st \in FactorScreenTimes,
          mh \in MoodHistories, sk \in {0, 1, 3, 7}, hist \in Histories :
         \E a \in FactorPortions(n), v \in FactorPortions(n) :
           \E ud \in {ScoredUserData(n, a, v, g, st, mh, sk, 85)} :
             IsWorld([Constructed(ud, hist) EXCEPT !.ls = Saved(ud, hist, DefaultQuota)])

NextFactor == \E tieDown \in Roundings(World) : CalculateWellnessScore(tieDown)

SpecFactor == InitFactor /\ [][NextFactor]_vars

(* ---------------- specification: the day's score history ---------------- *)
\* The day's samples as earlier calls left them: 1, 99 or 100 of them, the
\* last one the stored score, neighbours 10 points apart.  The score is then
\* computed up to four times, moods being recorded in between.
MaxHistoryCalls == 4
SampleCounts == {1, 99, 100}
Samples(n, last) ==
    [i \in 1..n |-> IF (n - i) % 2 = 0 THEN last
                    ELSE IF last > 50 THEN last - 10 ELSE last + 10]

InitHistory ==
    /\ now = 0
    /\ requests = <<>>
    /\ pc = [c \in Callers |-> "idle"]
    /\ wakeAt = [c \in Callers |-> 0]
    /\ frame = [c \in Callers |-> EmptyFrame]
    /\ cycle = [c \in Callers |-> EmptyCycle]
    /\ redditCache = EmptyCache
    /\ cacheHistory = EmptyHistory
    /\ currentFeedFilter = "all"
    /\ currentFeedContent = <<>>
    /\ budget = [clicks |-> 0, toggles |-> 0, ratings |-> 0, calls |-> MaxHistoryCalls,
                 checks |-> 0]
    /\ \E n \in {0, MaxLedger}, st \in {0, 90000}, mh \in MoodHistories,
          prev \in PreviousScores, k \in SampleCounts :
         \E a \in Portions(n), v \in Portions(n) :
           \E ud \in {[ScoredUserData(n, a, v, 1, st, mh, 0, prev) EXCEPT
                         !.dailyStats.wellnessScores = Samples(k, prev)]} :
             IsWorld([Constructed(ud, BaselineHistory(0)) EXCEPT
                        !.ls = Saved(ud, BaselineHistory(0), DefaultQuota)])

NextHistory ==
    \/ \E tieDown \in Roundings(World) : CalculateWellnessScore(tieDown)
    \/ \E mood \in Moods :
          \E tieDown \in Roundings(PushMood(World, mood)), pick \in Picks(World) :
             RecordMood(mood, tieDown, pick)

SpecHistory == InitHistory /\ [][NextHistory]_vars

(* ---------------- start-up ---------------- *)
\* loadDailyStats: the saved record when it is today's, or else a fresh one
loadDailyStats(ls) ==
    IF ls.dailyStats # <<>> /\ ls.dailyStats.date = Day(now)
    THEN ls.dailyStats
    ELSE [date |-> Day(now), screenTime |-> 0, xpEarned |-> 0, contentViewed |-> 0,
          wellnessScores |-> <<85>>]

\* the constructor: the defaults, dailyStats from loadDailyStats, the history
\* from loadHistoricalData
constructor(ls) ==
    [Constructed([InitUserData EXCEPT !.dailyStats = loadDailyStats(ls)],
                 ls.historicalData) EXCEPT !.ls = ls]

\* loadData: every field of the saved blob replaces the constructor's field
\* (the blob is JSON.stringify(userData), it holds every field, dailyStats
\* included)
loadData(w) ==
    IF w.ls.scrollBalancePro # <<>> THEN [w EXCEPT !.ud = w.ls.scrollBalancePro] ELSE w

\* the DOMContentLoaded listener, new ScrollBalancePro(): the constructor's
\* fields, then its init(), which is loadData followed by the rest of init()
start(w, pick) ==
    CHOOSE w2 \in {init(w1, pick) : w1 \in {loadData(constructor(w.ls))}} : TRUE

(* ---------------- specification: start-up on a later day ---------------- *)
\* An earlier session of day 0 saved its state with 0, 2 or 8 hours of screen
\* time; the page is loaded again an hour into day 0 or into day 1, or for
\* the first time.  Before the listener has run the memory is shown as the
\* constructor will fill it; the listener runs once, the statistics are
\* refreshed afterwards.
HourMs == 3600000
StartTimes == {HourMs, DayMs + HourMs}
EarlierScreenTimes == {0, 7200, 28800}
MaxStartCalls == 2

\* what the earlier session left in memory when it saved
EarlierUserData(n, st) ==
    [InitUserData EXCEPT !.contentRatings = Ledger(n, n, n, 1),
                         !.totalContentRated = n,
                         !.totalValuableContent = n,
                         !.screenTime = st,
                         !.dailyStats.screenTime = st,
                         !.dailyChallenge = SavedChallenge]
Stores ==
    {EmptyStorage(DefaultQuota)} \cup
    {Saved(EarlierUserData(n, st), BaselineHistory(0), DefaultQuota) :
       n \in {0, 3}, st \in EarlierScreenTimes}

Start(pick) ==
    /\ budget.checks > 0
    /\ budget' = [budget EXCEPT !.checks = @ - 1]
    /\ \E w \in {start(World, pick)} : Commit(w)
    /\ UNCHANGED <<now, requests, pc, wakeAt, feedVars>>

InitStart ==
    /\ now \in StartTimes
    /\ requests = <<>>
    /\ pc = [c \in Callers |-> "idle"]
    /\ wakeAt = [c \in Callers |-> 0]
    /\ frame = [c \in Callers |-> EmptyFrame]
    /\ cycle = [c \in Callers |-> EmptyCycle]
    /\ redditCache = EmptyCache
    /\ cacheHistory = EmptyHistory
    /\ currentFeedFilter = "all"
    /\ currentFeedContent = <<>>
    /\ budget = [clicks |-> 0, toggles |-> 0, ratings |-> 0, calls |-> MaxStartCalls,
                 checks |-> 1]
    /\ \E ls \in Stores : IsWorld(constructor(ls))

NextStart ==
    \/ \E pick \in Picks(World) : Start(pick)
    \/ /\ budget.checks = 0
       /\ \E tieDown \in Roundings(World), pick \in Picks(World) :
            UpdateAllStats(tieDown, pick)

SpecStart == InitStart /\ [][NextStart]_vars

(* ---------------- specification: overlapping feed loads ---------------- *)
\* The user has both default goals, or has switched "learn" off in an earlier
\* session; filter buttons are clicked while earlier loads are in flight, and
\* every listing arrives with a post.
MaxOverlapClicks == 3
OverlapFilters == {"all", "goal-aligned"}
SavedGoals == {<<"learn", "chill">>, <<"chill">>}

InitOverlap ==
    /\ now = 0
    /\ pc = [c \in Callers |-> "idle"]
    /\ wakeAt = [c \in Callers |-> 0]
    /\ frame = [c \in Callers |-> EmptyFrame]
    /\ cycle = [c \in Callers |-> EmptyCycle]
    /\ redditCache = EmptyCache
    /\ cacheHistory = EmptyHistory
    /\ currentFeedFilter = "all"
    /\ currentFeedContent = <<>>
    /\ \E gs \in SavedGoals :
         \E w \in {init(Constructed([InitUserData EXCEPT !.goals = gs],
                                    BaselineHistory(0)), 1)} : IsWorld(w)
    /\ requests \in {<<>>, [i \in 1..(maxRequests - 1) |-> 0]}
    /\ budget = [clicks |-> MaxOverlapClicks, toggles |-> 0, ratings |-> 0, calls |-> 0,
                 checks |-> 0]

NextOverlap ==
    \/ TickFetch
    \/ \E c \in Callers, f \in OverlapFilters : c = FreeCaller /\ SelectFilter(c, f)
    \/ \E c \in Callers : ThrottleWake(c)
    \/ \E c \in Callers : Response(c, "ok")

SpecOverlap == InitOverlap /\ [][NextOverlap]_vars

(* ---------------- specification: the score recomputed on fixed inputs ------ *)
\* calculateWellnessScore is called again and again (the tracking interval
\* does so every 10 seconds) while the ratings, the screen time, the moods,
\* the streak, the history and the clock stay as they are.  What the doubles
\* make of a raw sum that lies on a half is fixed by the inputs, so it is the
\* same in every call of a behaviour: budget.tieDown.  budget.calls is the
\* number of calls made so far, modulo 2.
SettleLedgerSizes == {0, 10, MaxLedger}

CallMade == budget' = [budget EXCEPT !.calls = 1 - @]

Recalculate ==
    /\ CallMade
    /\ \E w \in {calculateWellnessScore(World, budget.tieDown)} : Commit(w)
    /\ UNCHANGED <<now, requests, pc, wakeAt, feedVars>>

InitSettle ==
    /\ now \in ScoreTimes
    /\ requests = <<>>
    /\ pc = [c \in Callers |-> "idle"]
    /\ wakeAt = [c \in Callers |-> 0]
    /\ frame = [c \in Callers |-> EmptyFrame]
    /\ cycle = [c \in Callers |-> EmptyCycle]
    /\ redditCache = EmptyCache
    /\ cacheHistory = EmptyHistory
    /\ currentFeedFilter = "all"
    /\ currentFeedContent = <<>>
    /\ \E n \in SettleLedgerSizes, g \in {1, 3}, st \in ScreenTimes,
          mh \in MoodHistories, sk \in Streaks, prev \in PreviousScores,
          hist \in Histories :
         \E a \in Portions(n), v \in Portions(n) :
           \E ud \in {ScoredUserData(n, a, v, g, st, mh, sk, prev)} :
             /\ IsWorld([Constructed(ud, hist) EXCEPT !.ls = Saved(ud, hist, DefaultQuota)])
             /\ \E tieDown \in Roundings(Constructed(ud, hist)) :
                  budget = [clicks |-> 0, toggles |-> 0, ratings |-> 0, calls |-> 0,
                            checks |-> 0, tieDown |-> tieDown]

NextSettle == Recalculate

\* the call keeps being made: calculateWellnessScore has no precondition, a
\* call is a step that changes the parity of the calls made
SpecSettle == InitSettle /\ [][NextSettle]_vars /\ WF_budget(CallMade)

(* ---------------- specification: saves at the size threshold ---------------- *)
\* triggerOwlAppearance: the owl is shown and the interaction pushed (one of
\* the fields counted in rest; the 50 kept are not reached here), then
\* saveData
OwlBytes == 150
triggerOwlAppearance(w) == saveData([w EXCEPT !.ud.rest = @ + OwlBytes])

\* The user data of the earlier session lack 200, 350, 500 or 1000 bytes to the
\* threshold of 4.5 MB, with 100 or 101 ratings in the ledger (below the
\* threshold the ledger is not cut); the quota leaves room for every write.
MaxOwlCalls == 3
MaxOwlRatings == 1
OwlLedgerSizes == {100, 101}
ThresholdSlacks == {200, 350, 500, 1000}
NearThreshold(ud, slack) ==
    [ud EXCEPT !.rest = SizeThreshold - slack - (BytesOfUserData(ud) - ud.rest)]

TriggerOwlAppearance ==
    /\ budget.calls > 0
    /\ budget' = [budget EXCEPT !.calls = @ - 1]
    /\ \E w \in {triggerOwlAppearance(World)} : Commit(w)
    /\ UNCHANGED <<now, requests, pc, wakeAt, feedVars>>

InitOwl ==
    /\ now = 0
    /\ requests = <<>>
    /\ pc = [c \in Callers |-> "idle"]
    /\ wakeAt = [c \in Callers |-> 0]
    /\ frame = [c \in Callers |-> EmptyFrame]
    /\ cycle = [c \in Callers |-> EmptyCycle]
    /\ redditCache = EmptyCache
    /\ cacheHistory = EmptyHistory
    /\ currentFeedFilter = "all"
    /\ currentFeedContent = <<>>
    /\ budget = [clicks |-> 0, toggles |-> 0, ratings |-> MaxOwlRatings,
                 calls |-> MaxOwlCalls, checks |-> 0]
    /\ \E n \in OwlLedgerSizes, slack \in ThresholdSlacks :
         \E ud \in {NearThreshold(SavedUserData(n, RestBytes), slack)},
            hist \in {BaselineHistory(0)} :
           \E w \in {init([Constructed(ud, hist) EXCEPT
                             !.ls = Saved(ud, hist, DefaultQuota)], 1)} : IsWorld(w)

NextOwl ==
    \/ TriggerOwlAppearance
    \/ SaveData
    \/ RateContent("learn", FALSE, "skip")

SpecOwl == InitOwl /\ [][NextOwl]_vars

(* ======================= the claims ======================= *)
YoungCount == Len(FilterRequests(requests, now))

\* C1: for any interleaving of throttle() calls, the request list never holds
\* more than maxRequests timestamps younger than timeWindow
C1_WindowBound == YoungCount <= maxRequests

\* a step in which caller c1 calls throttle(), and one in which its wait ends
CallStep == pc["c1"] = "idle" /\ (requests' # requests \/ pc' # pc)
ResumeStep == pc["c1"] = "throttle" /\ pc'["c1"] = "idle"

\* C2: with one caller, a call made while fewer than maxRequests young
\* timestamps are recorded returns at once with its timestamp recorded; a call
\* made when maxRequests are recorded is suspended without recording, and
\* records its timestamp no earlier than timeWindow after the oldest one
C2_SingleCaller ==
    [][/\ (CallStep /\ YoungCount < maxRequests) =>
             /\ pc'["c1"] = "idle"
             /\ Len(requests') = YoungCount + 1
             /\ requests'[Len(requests')] = now
       /\ (CallStep /\ YoungCount >= maxRequests) =>
             /\ pc'["c1"] = "throttle"
             /\ Len(requests') = YoungCount
             /\ \A i \in 1..Len(requests') : requests'[i] = requests[i + Len(requests) - YoungCount]
       /\ ResumeStep =>
             /\ requests' = Append(requests, now)
             /\ now >= requests[1] + timeWindow]_vars

\* the 31st call was suspended and has recorded its timestamp
C2_Witness ==
    /\ pc["c1"] = "idle"
    /\ Len(requests) = maxRequests + 1
    /\ requests[maxRequests + 1] >= requests[1] + timeWindow

\* a click on filter button f, and the key fetchRealContent then computes
ClickStep(f) == budget'.clicks = budget.clicks - 1 /\ currentFeedFilter' = f
FreshEntry(key) ==
    /\ key \in MapKeys(redditCache.data)
    /\ \E i \in 1..Len(redditCache.expiresAt) :
          redditCache.expiresAt[i].k = key /\ now < redditCache.expiresAt[i].v

\* C3: a call that finds an unexpired entry for its key serves the cached
\* value and makes no throttle() call and no request, and changes neither the
\* cache nor the rate window
C3_CacheHitFrame ==
    [][\A f \in FetchFilters :
         (ClickStep(f) /\ FreshEntry(CacheKey(f, userData.goals))) =>
             /\ currentFeedContent' = MapGet(redditCache.data, CacheKey(f, userData.goals))
             /\ UNCHANGED <<redditCache, requests, pc, wakeAt, frame, cycle>>]_vars

\* two clicks, the second served from the cache
C3_Witness ==
    /\ cacheHistory.hits > 0
    /\ FreshEntry(CacheKey(currentFeedFilter, userData.goals))
    /\ currentFeedContent = MapGet(redditCache.data, CacheKey(currentFeedFilter, userData.goals))

\* C4: between steps the feed cache holds at most 10 entries, for any
\* interleaving of overlapping fetchRealContent calls and toggleGoal calls
C4_CacheBound ==
    /\ Len(redditCache.data) <= maxCacheEntries
    /\ Len(redditCache.expiresAt) <= maxCacheEntries

\* a store has evicted and left the cache full while another call is in flight
C4_Witness ==
    /\ Len(redditCache.data) = maxCacheEntries
    /\ cacheHistory.evicted # {}
    /\ \E c \in Callers : pc[c] # "idle"

\* the step in which caller c's cycle returns with posts and stores them
StoreStep(c) == pc[c] # "idle" /\ pc'[c] = "idle" /\ cycle'[c].returned # <<>>
HitStep == cacheHistory'.hits = cacheHistory.hits + 1
InsertionNumber(key) == (CHOOSE p \in cacheHistory.order : p[1] = key)[2]

\* C5: a store that makes the cache exceed 10 entries evicts exactly one
\* entry, the one inserted earliest of those held; a cache hit changes
\* neither the entries nor their order
C5_EvictsEarliestInserted ==
    [][/\ \A c \in Callers :
            StoreStep(c) =>
                LET held == MapKeys(redditCache.data)
                    present == held \cup {frame[c].cacheKey}
                IN  IF Cardinality(present) > maxCacheEntries
                    THEN \E victim \in held :
                            /\ MapKeys(redditCache'.data) = present \ {victim}
                            /\ MapKeys(redditCache'.expiresAt) = present \ {victim}
                            /\ \A k \in held : InsertionNumber(victim) <= InsertionNumber(k)
                    ELSE MapKeys(redditCache'.data) = present
       /\ HitStep => redditCache' = redditCache]_vars

\* an eviction has happened, and a hit
C5_Witness ==
    /\ cacheHistory.evicted # {}
    /\ cacheHistory.hits > 0
    /\ Len(redditCache.data) = maxCacheEntries

\* C6: a stored result expires 5 minutes after the time it is stored
C6_ExpiresFromStore ==
    [][\A c \in Callers :
          StoreStep(c) =>
              MapGet(redditCache'.expiresAt, frame[c].cacheKey) = now + CacheTtlMs]_vars

\* the subreddits of a list of posts
PostSubs(p) == [i \in 1..Len(p) |-> p[i].subreddit]
\* the subreddits of a cycle whose request had the outcome "ok"
RECURSIVE OkSubs(_, _)
OkSubs(subs, lg) ==
    IF lg = <<>> THEN <<>>
    ELSE (IF Head(lg) = "ok" THEN <<Head(subs)>> ELSE <<>>) \o OkSubs(Tail(subs), Tail(lg))

\* C7: a failed request never ends the cycle and is never cached: a cycle
\* returns only after every subreddit was requested, returns the posts of
\* those that arrived, and one that returns nothing leaves the cache unchanged
C7_FailureSkipsCategory ==
    [][/\ \A c \in Callers :
            cycle'[c].done =>
                /\ Len(cycle'[c].log) = Len(cycle'[c].subreddits)
                /\ PostSubs(cycle'[c].returned) = OkSubs(cycle'[c].subreddits, cycle'[c].log)
       /\ \A c \in Callers :
            (pc[c] # "idle" /\ pc'[c] = "idle" /\ cycle'[c].returned = <<>>) =>
                redditCache' = redditCache
       /\ \A i \in 1..Len(redditCache'.data) : redditCache'.data[i].v # <<>>
       /\ \A f \in FetchFilters :
            (ClickStep(f) /\ ~FreshEntry(CacheKey(f, userData.goals))) =>
                pc'["c1"] \in {"fetch", "throttle"}]_vars

\* a cycle whose first request failed has returned the posts of a later one
C7_Witness ==
    /\ cycle["c1"].done
    /\ cycle["c1"].log[1] = "error"
    /\ cycle["c1"].returned # <<>>

\* when the retry delay of the last 429 of a cycle is over
RetryDue(cy) ==
    cy.last429[1] + (IF cy.last429[2] = <<>> THEN 60 ELSE cy.last429[2][1]) * 1000
\* the subreddits of a cycle whose request was answered 429
Limited(cy) == {cy.subreddits[i] : i \in {j \in 1..Len(cy.log) : cy.log[j] = "429"}}

C9_ScoreInRange == userData.wellnessScore \in 20..100

\* a call has stored the floor: the factors sum to less than 20
C9_Witness ==
    /\ Len(userData.dailyStats.wellnessScores) >= 2
    /\ userData.wellnessScore = 20
    /\ RawScore(userData, historicalData, FALSE) < 20

\* C10: every rating event runs its four stages in order: the rating is
\* recorded, the score recomputed, progression (challenge progress and
\* achievements) evaluated and the nudge detectors evaluated, also when the
\* event unlocks an achievement or completes the daily challenge
C10_AllStagesRun ==
    ratingEvent.n > 0 =>
        ratingEvent.stages = <<"record", "score", "progression", "nudges">>


\* a step that is a call of checkAchievements on its own
CheckStep == budget'.checks < budget.checks

\* a call of checkAchievements made now would unlock nothing and add no XP
NothingToUnlock ==
    \E w \in {checkAchievements(World)} :
       /\ w.ud.achievements = userData.achievements
       /\ w.ud.xp = userData.xp

\* C11: a call of checkAchievements leaves a state in which a second call,
\* no event in between, unlocks no achievement and adds no XP
C11_SecondCallIdle == [][CheckStep => NothingToUnlock']_vars

\* a call of checkAchievements on its own has unlocked an achievement: the
\* activity log holds an unlock later than the last rating event
C11_Witness ==
    /\ budget.checks < MaxDayChecks
    /\ userData.contentRatings # <<>>
    /\ \E i \in DOMAIN userData.activityHistory :
          /\ userData.activityHistory[i].type = "achievement"
          /\ userData.activityHistory[i].time >
                userData.contentRatings[Len(userData.contentRatings)].timestamp

\* how many completion markers of a day the achievements hold
MarkerCount(achievements, date) ==
    Len(SelectSeq(achievements, LAMBDA a : a = DailyComplete(date)))

\* the XP a step adds for the rating it records, if it records one
RatingXp ==
    IF ratingEvent'.n > ratingEvent.n
    THEN LET r == userData'.contentRatings[Len(userData'.contentRatings)]
         IN  XpGained(userData', r.aligned, r.rating)
    ELSE 0

\* the rewards of the catalog achievements a step unlocks
UnlockXp ==
    Sum([i \in 1..Len(AchievementIds) |->
           IF /\ SeqContains(userData'.achievements, Unlocked(AchievementIds[i]))
              /\ ~SeqContains(userData.achievements, Unlocked(AchievementIds[i]))
           THEN xpReward(AchievementIds[i]) ELSE 0])

\* the step appends the completion marker of the current day
MarkerAdded ==
    MarkerCount(userData'.achievements, Day(now))
        > MarkerCount(userData.achievements, Day(now))

\* C12: a day holds at most one completion marker, and a step adds the
\* challenge's bonus XP exactly when it appends the day's marker: every
\* other recomputation of the progress, at or above the target, adds none
C12_BonusOncePerDay ==
    [][/\ MarkerCount(userData'.achievements, Day(now)) <= 1
       /\ userData'.xp = userData.xp + RatingXp + UnlockXp
                         + (IF MarkerAdded THEN userData.dailyChallenge.xpReward
                            ELSE 0)]_vars

\* the 80%-alignment challenge was completed by the day's first rating and
\* its progress recomputed, still at the target, by the second
C12_Witness ==
    /\ Day(now) = 0
    /\ userData.dailyChallenge.type = "alignment"
    /\ userData.dailyChallenge.progress >= userData.dailyChallenge.target
    /\ MarkerCount(userData.achievements, 0) = 1
    /\ Len(userData.contentRatings) >= 2
    /\ \A i \in DOMAIN userData.contentRatings : userData.contentRatings[i].aligned


\* C13: every read of the challenge's progress, by the card or by the
\* progress update, finds the challenge of the current calendar day
C13_ReadsTodaysChallenge == \A r \in challengeReads : r.date = r.today


\* C14: a step changes the challenge's id or date key only when the
\* challenge is not the current day's, and then makes it the current day's
\* with progress 0: once per rollover, and never while the day stays
C14_DateKeyFollowsDay ==
    [][(\/ userData'.dailyChallenge.date # userData.dailyChallenge.date
        \/ userData'.dailyChallenge.id # userData.dailyChallenge.id)
       => /\ userData.dailyChallenge.date # Day(now)
          /\ userData'.dailyChallenge.date = Day(now')
          /\ userData'.dailyChallenge.progress = 0
          /\ userData'.challengeProgress = 0]_vars

\* the day rolled over, the first rating of the new day drew the new
\* challenge and a later update counted progress under it
C14_Witness ==
    /\ Day(now) = 1
    /\ userData.dailyChallenge.date = 1
    /\ userData.dailyChallenge.progress > 0
    /\ Len(SelectSeq(userData.contentRatings, LAMBDA r : Day(r.timestamp) = 1)) >= 2


\* s is the beginning of t
IsPrefix(s, t) == Len(s) <= Len(t) /\ SubSeq(t, 1, Len(s)) = s

\* C20: no entry of userData.achievements, catalog id or completion marker,
\* occurs twice, and every step keeps the entries it finds, in place
C20_AchievementsAppendOnly ==
    [][/\ IsPrefix(userData.achievements, userData'.achievements)
       /\ \A i, j \in DOMAIN userData'.achievements :
             userData'.achievements[i] = userData'.achievements[j] => i = j]_vars

\* catalog ids and the markers of two days are held, and a rating event
\* came after the last of them was pushed
C20_Witness ==
    /\ Len(SelectSeq(userData.achievements, LAMBDA a : a.id = "daily_complete")) = 2
    /\ Len(SelectSeq(userData.achievements, LAMBDA a : a.id # "daily_complete")) >= 2
    /\ Len(ratingEvent.stages) = 4


\* C15: any two nudges shown, live-coaching messages and slow-down warnings
\* alike, are at least 2 minutes apart
C15_NudgesTwoMinutesApart ==
    \A i, j \in DOMAIN nudgeLog :
       i < j => nudgeLog[j].time - nudgeLog[i].time >= 120000

\* a step that is a rating event
RatingStep == ratingEvent'.n > ratingEvent.n

\* the session's ratings of the last 60 seconds, after the step
LastMinuteOfSession ==
    SelectSeq(userData'.sessionRatings, LAMBDA r : now' - r.timestamp < 60000)

\* C16: a rating event that finds at least 10 session ratings in the last 60
\* seconds, more than 70% of them skips, increments the mindless-scroll
\* counter and issues the slow-down nudge
C16_MindlessScrollingFlagged ==
    [][(/\ RatingStep
        /\ Len(LastMinuteOfSession) >= 10
        /\ 10 * Len(SelectSeq(LastMinuteOfSession, LAMBDA r : r.rating = "skip"))
              > 7 * Len(LastMinuteOfSession))
       => /\ userData'.mindlessScrollDetected > userData.mindlessScrollDetected
          /\ Len(nudgeLog') > Len(nudgeLog)
          /\ nudgeLog'[Len(nudgeLog')].title = "Slow Down"]_vars

\* the session's first ten ratings
FirstTen == SubSeq(userData.sessionRatings, 1, 10)

\* the session holds ten ratings made within 60 seconds, at least 8 of them
\* skips
TenQuickRatings ==
    /\ Len(userData.sessionRatings) >= 10
    /\ FirstTen[10].timestamp - FirstTen[1].timestamp < 60000
    /\ Len(SelectSeq(FirstTen, LAMBDA r : r.rating = "skip")) >= 8

\* C17: in a fresh session, ten ratings within 60 seconds of which 8 (or
\* more) are skips leave the mindless-scroll counter incremented and a
\* course-correction nudge shown
C17_QuickSkipsAreNudged ==
    TenQuickRatings =>
        /\ userData.mindlessScrollDetected >= 1
        /\ \E i \in DOMAIN nudgeLog : nudgeLog[i].message = "skipping a lot"

\* ten ratings within 60 seconds, exactly 8 of them skips, and the nudge
C17_Witness ==
    /\ TenQuickRatings
    /\ Len(SelectSeq(FirstTen, LAMBDA r : r.rating = "skip")) = 8
    /\ FirstTen[10].timestamp > FirstTen[1].timestamp
    /\ userData.mindlessScrollDetected >= 1
    /\ \E i \in DOMAIN nudgeLog : nudgeLog[i].message = "skipping a lot"


\* the rating a rating step has recorded
LastRating == userData'.contentRatings[Len(userData'.contentRatings)]

\* C19: a valuable and aligned rating increments qualityStreakCurrent and
\* makes qualityStreakBest the larger of itself and the new current, any
\* other rating resets current to 0 and keeps best; after every step
\* best >= current, and best never decreases
C19_BestBoundsCurrent ==
    [][/\ userData'.qualityStreakBest >= userData'.qualityStreakCurrent
       /\ userData'.qualityStreakBest >= userData.qualityStreakBest
       /\ RatingStep =>
            /\ userData'.qualityStreakCurrent =
                 IF LastRating.rating = "valuable" /\ LastRating.aligned
                 THEN userData.qualityStreakCurrent + 1 ELSE 0
            /\ userData'.qualityStreakBest =
                 Max(userData.qualityStreakBest, userData'.qualityStreakCurrent)]_vars

\* a streak of two was ended by a third rating: best stays where it was
C19_Witness ==
    /\ userData.qualityStreakBest = 2
    /\ userData.qualityStreakCurrent = 0
    /\ Len(userData.contentRatings) = 3


\* the ledger holds twenty ratings, all valuable and aligned
TwentyQualityRatings ==
    /\ Len(userData.contentRatings) = 20
    /\ \A i \in 1..20 : /\ userData.contentRatings[i].rating = "valuable"
                        /\ userData.contentRatings[i].aligned

\* the XP of the i-th rating of an unbroken quality streak
StreakRatingXp(i) ==
    XpGained([userData EXCEPT !.qualityStreakCurrent = i], TRUE, "valuable")

\* the XP an entry of userData.achievements stands for: the reward of a
\* catalog achievement, or the bonus of the day's challenge
EntryXp(a) ==
    IF a.id = "daily_complete" THEN userData.dailyChallenge.xpReward
    ELSE xpReward(a.id)

\* how often an entry occurs in userData.achievements
Occurrences(a) == Len(SelectSeq(userData.achievements, LAMBDA b : b = a))

\* C18: after 20 consecutive valuable and aligned ratings from a fresh
\* state, qualityStreakCurrent = qualityStreakBest = 20, quality_streak_5
\* and quality_streak_10 are each unlocked once, and the total XP is the XP
\* of the 20 ratings plus the reward of each unlocked entry counted once
C18_TwentyInARow ==
    TwentyQualityRatings =>
        /\ userData.qualityStreakCurrent = 20
        /\ userData.qualityStreakBest = 20
        /\ Occurrences(Unlocked("quality_streak_5")) = 1
        /\ Occurrences(Unlocked("quality_streak_10")) = 1
        /\ \A i \in DOMAIN userData.achievements :
              Occurrences(userData.achievements[i]) = 1
        /\ userData.xp =
              Sum([i \in 1..20 |-> StreakRatingXp(i)])
              + Sum([i \in DOMAIN userData.achievements |->
                       EntryXp(userData.achievements[i])])

\* the streak of twenty is reached, with the rewards 150 and 300 in the XP
C18_Witness ==
    /\ TwentyQualityRatings
    /\ userData.qualityStreakBest = 20
    /\ SeqContains(userData.achievements, Unlocked("quality_streak_5"))
    /\ SeqContains(userData.achievements, Unlocked("quality_streak_10"))
    /\ userData.xp >= 15 * 4 + 23 * 16 + 150 + 300

(* ---------------- C21 ---------------- *)
SaveStep == budget'.calls < budget.calls
FirstWriteFails == ~Fits(localStorage, "scrollBalancePro", BytesOfUserData(userData))
RetryFails ==
    ~Fits(localStorage, "scrollBalancePro", BytesOfUserData(compressUserData(userData)))
AfterThreshold(log) == IF log # <<>> /\ Head(log) = "compress" THEN Tail(log) ELSE log
SaveOutcomes ==
    {<<"write">>, <<"quota", "compress", "write">>,
     <<"quota", "compress", "quota", "alert">>}

\* C21: a saveData call whose write fails for lack of quota compacts the
\* user data, writes once more, and alerts the user exactly when that second
\* write fails too; no call does anything else after a quota failure.  A
\* call of saveData on its own leaves in memory the user data compacted once,
\* stores it when the retry succeeds and leaves the store as it was when the
\* retry fails.  (The compaction above the 4.5 MB threshold precedes the
\* first write and is not a reaction to the failure.)
C21_QuotaFailureRetriedOnce ==
    /\ [](\A log \in saveLog : AfterThreshold(log) \in SaveOutcomes)
    /\ [][SaveStep /\ FirstWriteFails =>
            /\ userData' = compressUserData(userData)
            /\ IF RetryFails
               THEN /\ localStorage' = localStorage
                    /\ \E log \in saveLog' : log[Len(log)] = "alert"
               ELSE localStorage'.scrollBalancePro = userData']_vars
C21_Witness ==
    /\ budget.calls < MaxSaveCalls
    /\ <<"quota", "compress", "write">> \in saveLog
    /\ <<"quota", "compress", "quota", "alert">> \in saveLog

(* ---------------- C22 ---------------- *)
\* C22: no rating event is cut short by a failing storage write: every
\* rating event gets past its stats refresh (updateAllStats, whose only
\* statements that can throw are its three saves), after which challenge
\* progress, achievements and nudges are run.
C22_SaveFailureDoesNotAbort ==
    [][RatingStep => \E i \in DOMAIN ratingEvent'.stages :
                        ratingEvent'.stages[i] = "score"]_vars

(* ---------------- C25 ---------------- *)
\* C25: the rating ledger never holds more than 100 entries.
C25_LedgerCapped == Len(userData.contentRatings) <= 100

(* ---------------- C23 ---------------- *)
\* the interval fires (nothing else advances the clock)
IntervalStep == now' # now
\* nothing was rated since the callback before this one
QuietSinceInterval ==
    /\ now > 0
    /\ \A i \in DOMAIN userData.contentRatings : userData.contentRatings[i].timestamp # now

\* C23: an interval callback that follows another with no rating in between
\* and adds no screen time leaves the wellness score, the score history, the
\* activity history, the XP and the achievements as they were.
C23_IdleTickChangesNothing ==
    [][IntervalStep /\ QuietSinceInterval /\ userData'.screenTime = userData.screenTime =>
         /\ userData'.wellnessScore = userData.wellnessScore
         /\ userData'.dailyStats.wellnessScores = userData.dailyStats.wellnessScores
         /\ userData'.activityHistory = userData.activityHistory
         /\ userData'.xp = userData.xp
         /\ userData'.achievements = userData.achievements]_vars

(* ---------------- C24 ---------------- *)
\* C24: the level keeps up with the XP: the accumulated XP is always below
\* the threshold of the level after the current one.
C24_LevelFollowsXp == userData.xp < getXPForLevel(userData.level + 1)

(* ---------------- C26 ---------------- *)
\* no ratings, no screen time today, no mood samples
Baseline ==
    /\ userData.contentRatings = <<>>
    /\ userData.dailyStats.screenTime = 0
    /\ userData.moodHistory = <<>>
BaselinePoints == 0 + 15 + 10 + 7 + 5 + 2

\* C26: a score computed with no ratings, no screen time and no moods is an
\* integer from 20 to 100: the seven factors add up to the baseline points
\* (goal 0, time 15, mood 10, engagement 7, diversity 5, recency 2) plus the
\* consistency bonus over a denominator of at least 1, and the score is that
\* sum smoothed with the previous score.
C26_BaselineScore ==
    [][Baseline /\ Baseline' /\ budget'.calls < budget.calls =>
         LET sum == RawSum(userData, historicalData)
             bonus == ConsistencyScore(userData.streak, historicalData)
             previousScore == IF userData.wellnessScore = 0 THEN 85
                              ELSE userData.wellnessScore
         IN  /\ sum[2] >= 1
             /\ sum[1] = (BaselinePoints + bonus) * sum[2]
             /\ userData'.wellnessScore = Smooth(previousScore, BaselinePoints + bonus)
             /\ userData'.wellnessScore \in 20..100]_vars
C26_Witness ==
    /\ Baseline
    /\ budget.calls < MaxCalls
    /\ userData.streak = 7
    /\ userData.wellnessScore = Smooth(20, BaselinePoints + 10)

(* ---------------- C30 ---------------- *)
\* the day's challenge has reached its target
Completed(ud) ==
    /\ ud.dailyChallenge # NoChallenge
    /\ ud.dailyChallenge.progress >= ud.dailyChallenge.target

\* C30: a challenge that has reached its target stays at or above it for as
\* long as the challenge of that date is the one held.
C30_CompletedUntilRollover ==
    [][Completed(userData) /\ userData'.dailyChallenge # NoChallenge
         /\ userData'.dailyChallenge.date = userData.dailyChallenge.date
       => Completed(userData')]_vars

(* ---------------- C27 ---------------- *)
\* a nav item is clicked or a shortcut key pressed
NavigateStep == budget'.clicks < budget.clicks

C29_FailureFallsBackToDashboard ==
    navigation.failed \notin {"none", "dashboard"} /\ ~navigation.isNavigating
      => navigation.activePage = "dashboard"

(* ---------------- C28 ---------------- *)
\* the callback of a chrome.tabs.get runs
TabsGetStep == Len(worker'.pending) < Len(worker.pending)

\* C28: each updateSiteTime adds, to the hostname of the tab that was active
\* when it was called, the whole seconds that had passed since the previous
\* update.
C28_SiteTimeGrowsByActiveTime ==
    [][TabsGetStep =>
         LET call == Head(worker.pending)
         IN  worker'.siteTracking =
               [worker.siteTracking EXCEPT ![call.hostname] = @ + call.elapsed]]_vars

(* ---------------- C31 ---------------- *)
\* the ratings timestamped on the day of now
TodayRatings(ud) == SelectSeq(ud.contentRatings, LAMBDA r : Day(r.timestamp) = Day(now))
\* the rating event has run its stats refresh, so that its progression step
\* (updateDailyChallengeProgress, checkAchievements) was entered
HasStage(ev, name) == \E i \in DOMAIN ev.stages : ev.stages[i] = name

\* C31: after the progression step of a rating event the challenge's
\* progress is the value its type gives over the ratings of today, the first
\* rating after a day rollover included.
C31_ProgressRecomputed ==
    [][RatingStep /\ HasStage(ratingEvent', "score")
         /\ userData'.dailyChallenge # NoChallenge
       => userData'.dailyChallenge.progress =
            ChallengeProgress(userData'.dailyChallenge.type, TodayRatings(userData'))]_vars

(* ---------------- C32 ---------------- *)
\* the nudges the step shows
NewNudges == SubSeq(nudgeLog', Len(nudgeLog) + 1, Len(nudgeLog'))
\* the nudges that come with an increment of mindlessScrollDetected: the
\* course correction of provideLiveCoaching and the warning of
\* detectMindlessScrolling
CountedNudges ==
    SelectSeq(NewNudges, LAMBDA n : n.message \in {"skipping a lot", "take a breath"})

\* C32: a rating event raises the mindless-scroll counter by one for each
\* course-correction nudge (and each slow-down warning) it shows, so that an
\* event whose course-correction message is suppressed leaves it unchanged.
C32_CounterFollowsNudge ==
    [][RatingStep =>
         userData'.mindlessScrollDetected =
           userData.mindlessScrollDetected + Len(CountedNudges)]_vars

(* ---------------- C33 ---------------- *)
\* the window of the mood factor, its last three samples and the earlier ones
MoodWindow == SliceLast(userData.moodHistory, 10)
LastThree == SliceLast(MoodWindow, 3)
Earlier == Slice(MoodWindow, Len(MoodWindow) - 3)
ScoreSum(ms) == Sum([i \in 1..Len(ms) |-> ms[i].score])
\* the mean of the last three is above the mean of the earlier samples
Improving ==
    /\ Earlier # <<>>
    /\ ScoreSum(LastThree) * Len(Earlier) > ScoreSum(Earlier) * 3
AllPositive ==
    \A i \in DOMAIN LastThree : LastThree[i].mood \in {"energized", "calm", "focused", "happy"}
\* the factor without the bonus for three positive samples
TrendPoints == MoodScore(userData.moodHistory) - (IF AllPositive THEN 3 ELSE 0)

\* C33: the mood factor is 10 with fewer than 3 samples and at most 18;
\* with 3 samples or more it is 7, 10, 13 or 15 plus 3 exactly when the last
\* three are all of a positive category, 15 only when the mean of the last
\* three is above the mean of the earlier samples of the window, and 7 when
\* that mean is below 60 and not above the mean of the earlier ones.
C33_MoodFactor ==
    /\ MoodScore(userData.moodHistory) <= 18
    /\ Len(MoodWindow) < 3 => MoodScore(userData.moodHistory) = 10
    /\ Len(MoodWindow) >= 3 =>
         /\ TrendPoints \in {7, 10, 13, 15}
         /\ TrendPoints = 15 => Improving
         /\ ScoreSum(LastThree) < 3 * 60 /\ ~Improving => TrendPoints = 7

(* ---------------- C34 ---------------- *)
\* the ratings the factors look at
RecentRatings == SliceLast(userData.contentRatings, 20)
RecentCount == Max(Len(RecentRatings), 1)
LastHourCount == Max(Len(LastHourRatings(userData.contentRatings)), 1)

Apart(x, y) == x - y > 1 \/ y - x > 1
DayScores == userData.dailyStats.wellnessScores
\* the history after the step is the one before it with the new score added
\* last, its oldest sample dropped when that makes more than 100
ScoreAppended ==
    LET old == userData.dailyStats.wellnessScores
        new == userData'.dailyStats.wellnessScores
        dropped == Len(old) + 1 - Len(new)
    IN  /\ Len(new) = Min(Len(old) + 1, 100)
        /\ new[Len(new)] = userData'.wellnessScore
        /\ \A i \in 1..(Len(new) - 1) : new[i] = old[i + dropped]
        /\ old # <<>> => Apart(old[Len(old)], userData'.wellnessScore)

\* a step that is one call of calculateWellnessScore (recording a mood calls
\* it more than once)
OneCallStep == budget'.calls < budget.calls /\ userData'.moodHistory = userData.moodHistory

\* C35: the day's score history never holds more than 100 samples, a call of
\* calculateWellnessScore either leaves it as it is or appends the new score
\* (dropping the oldest sample past 100) and appends only a score more than 1
\* point from the last sample, so neighbouring samples are always more than 1
\* point apart.
C35_HistoryBounded ==
    /\ [](/\ Len(DayScores) <= 100
          /\ \A i \in 1..(Len(DayScores) - 1) : Apart(DayScores[i], DayScores[i + 1]))
    /\ [][OneCallStep =>
             \/ userData'.dailyStats.wellnessScores = userData.dailyStats.wellnessScores
             \/ ScoreAppended]_vars
\* a full history that has taken two more samples and then a call that added none
C35_Witness ==
    /\ Len(DayScores) = 100
    /\ budget.calls = 0
    /\ DayScores[99] # DayScores[100]
    /\ DayScores[98] # DayScores[100]
    /\ DayScores[97] = DayScores[99]
    /\ DayScores[100] # userData.wellnessScore

(* ---------------- C36 ---------------- *)
\* init() has run
InitRan == budget.checks = 0 /\ saveLog # {}

\* C36: after start-up the daily stats used for scoring are today's: stats
\* saved on an earlier day have been replaced by a fresh record, so the time
\* factor is computed from today's screen time.
C36_DailyStatsOfToday ==
    InitRan => userData.dailyStats.date = Day(now)

(* ---------------- C37 ---------------- *)
\* no load is in flight, and one has been made
LoadsFinished ==
    /\ \A c \in Callers : pc[c] = "idle"
    /\ budget.clicks < MaxOverlapClicks
\* the subreddits of the posts held
HeldSubreddits == [i \in 1..Len(currentFeedContent) |-> currentFeedContent[i].subreddit]

\* C37: once every feed load has finished, the content held is the content
\* fetched for the filter that is selected: its posts come from the
\* subreddits of that filter.
C37_ContentOfSelectedFilter ==
    LoadsFinished =>
       HeldSubreddits = Slice(getSubredditsForGoals(currentFeedFilter, userData.goals), 3)

(* ---------------- C38 ---------------- *)
\* the goals a cache entry was fetched under: the second part of its key
EntryGoals(key) == key[2]

\* C38: once toggleGoal has cleared the cache, nothing fetched before the
\* toggle is stored: every entry the cache holds was fetched under the goals
\* as they are now.
C38_NoStoreFromBeforeToggle ==
    \A key \in MapKeys(redditCache.data) : EntryGoals(key) = userData.goals

(* ---------------- C39 ---------------- *)
\* the clamped raw score of the inputs
ClampedRaw == Clamp(RawScore(userData, historicalData, budget.tieDown))

\* C39: when calculateWellnessScore is called repeatedly on unchanged inputs,
\* the stored score reaches the clamped raw score after finitely many calls
\* and stays there.
C39_ScoreSettles == <>[](userData.wellnessScore = ClampedRaw)
\* the score has settled after calls that moved it at least twice, from a
\* stored score far from the raw one
C39_Witness ==
    /\ userData.wellnessScore = ClampedRaw
    /\ Len(DayScores) >= 3
    /\ Apart(DayScores[1], ClampedRaw)
    /\ DayScores[Len(DayScores)] # ClampedRaw

(* ---------------- C40 ---------------- *)
\* no write of a saveData call so far has failed
NoSaveError == \A log \in saveLog : ~SeqContains(log, "quota") /\ ~SeqContains(log, "logged")

\* C40: when a saveData call has completed without an error, the blob under
\* 'scrollBalancePro' is the user data as they are in memory when the call
\* returns, also when the call compacted them above the size threshold.
C40_BlobIsMemory ==
    [][SaveStep /\ NoSaveError' => localStorage'.scrollBalancePro = userData']_vars

====
